---- MODULE Spec2Model ----
(***************************************************************************)
(* Verification model of the BLAKE3ZCC decomposition subsystem of          *)
(* bb-storage: the BLAKE3ZCC hash engine, the manifest codec, the Digest   *)
(* value type, the chunk readers and the decomposing BlobAccess.           *)
(*                                                                         *)
(* Conventions.  A byte is an integer 0..255.  Go slices and arrays are    *)
(* TLA+ sequences, so Go index i is TLA+ index i+1.  A Go string is the    *)
(* sequence of its one-character strings.  A Go panic is reported in a     *)
(* "panic" field of the result.                                            *)
(***************************************************************************)
EXTENDS Integers, Sequences, FiniteSets, TLC

(***************************************************************************)
(* 32-bit arithmetic (math/bits and Go's wrapping uint32 operators).       *)
(* A uint32 is the pair << low 16 bits, high 16 bits >>: the value         *)
(* w[1] + 65536 * w[2].                                                    *)
(***************************************************************************)
Pow2(n) == 2 ^ n

H16 == Pow2(16)

RECURSIVE XorBits(_, _, _)
XorBits(a, b, n) ==
    IF n = 0 THEN 0
    ELSE ((a + b) % 2) + 2 * XorBits(a \div 2, b \div 2, n - 1)

\* The ^ operator on two 4-bit values, tabulated.
XorNibble == [a \in 0..15 |-> [b \in 0..15 |-> XorBits(a, b, 4)]]

Xor16(a, b) ==
    XorNibble[a % 16][b % 16]
    + 16 * XorNibble[(a \div 16) % 16][(b \div 16) % 16]
    + 256 * XorNibble[(a \div 256) % 16][(b \div 256) % 16]
    + 4096 * XorNibble[a \div 4096][b \div 4096]

\* The ^ operator on uint32.
Xor32(a, b) == << Xor16(a[1], b[1]), Xor16(a[2], b[2]) >>

\* The + operator on uint32, for three operands (a + b + c wraps once).
Add32x3(a, b, c) ==
    LET lo == a[1] + b[1] + c[1]
    IN  << lo % H16, (a[2] + b[2] + c[2] + (lo \div H16)) % H16 >>

\* The + operator on uint32.
Add32(a, b) ==
    LET lo == a[1] + b[1]
    IN  << lo % H16, (a[2] + b[2] + (lo \div H16)) % H16 >>

\* bits.RotateLeft32(x, -n): rotate right by n bits, 0 < n <= 16.
RotateRight32(x, n) ==
    IF n = 16 THEN << x[2], x[1] >>
    ELSE << (x[1] \div Pow2(n)) + (x[2] % Pow2(n)) * Pow2(16 - n),
            (x[2] \div Pow2(n)) + (x[1] % Pow2(n)) * Pow2(16 - n) >>

\* A uint32 from an integer below 2^31, and from a hexadecimal constant
\* given as its two 16-bit halves.
U32(n) == << n % H16, n \div H16 >>

(***************************************************************************)
(* blake3.go: constants and the compression function.                      *)
(***************************************************************************)
maximumBlockSize == 64

maximumBlocksPerChunk == 1024 \div maximumBlockSize

flagChunkStart == 1

flagChunkEnd == 2

flagParent == 4

flagRoot == 8

\* 0x6a09e667, 0xbb67ae85, 0x3c6ef372, 0xa54ff53a,
\* 0x510e527f, 0x9b05688c, 0x1f83d9ab, 0x5be0cd19.
iv == << << 58983, 27145 >>, << 44677, 47975 >>, << 62322, 15470 >>,
         << 62778, 42319 >>, << 21119, 20750 >>, << 26764, 39685 >>,
         << 55723, 8067 >>, << 52505, 23520 >> >>

Min(a, b) == IF a < b THEN a ELSE b

\* The G function.  Its eight assignments come in two runs of four that
\* differ in the message word and the rotations; q is << a, b, c, d >>
\* before a run.  A pair << w, e >>[2] is e, computed once w has been.
\* b = bits.RotateLeft32(b^c, -r2), and the four words after the run.
gHalfB(q, a, d, c, r2) ==
    << c, << a, RotateRight32(Xor32(q[2], c), r2), c, d >> >>[2]

\* c += d
gHalfC(q, a, d, r2) == << d, gHalfB(q, a, d, Add32(q[3], d), r2) >>[2]

\* d = bits.RotateLeft32(d^a, -r1)
gHalfD(q, a, r1, r2) ==
    << a, gHalfC(q, a, RotateRight32(Xor32(q[4], a), r1), r2) >>[2]

\* a += b + m
gHalf(q, m, r1, r2) == gHalfD(q, Add32x3(q[1], q[2], m), r1, r2)

gSecondHalf(q, m1) == << q, gHalf(q, m1, 8, 7) >>[2]

g(a, b, c, d, m0, m1) == gSecondHalf(gHalf(<< a, b, c, d >>, m0, 16, 12), m1)

\* *pa, *pb, *pc, *pd = a, b, c, d, for the Go indices in ix.
gStore(v, ix, q) ==
    [v EXCEPT ![ix[1] + 1] = q[1], ![ix[2] + 1] = q[2],
              ![ix[3] + 1] = q[3], ![ix[4] + 1] = q[4]]

\* g(&v[ix[0]], &v[ix[1]], &v[ix[2]], &v[ix[3]], m0, m1).
gCall(v, ix, m0, m1) ==
    gStore(v, ix, g(v[ix[1] + 1], v[ix[2] + 1], v[ix[3] + 1], v[ix[4] + 1],
                    m0, m1))

\* The words of v (Go indices) the eight G calls of every round work on:
\* four columns, then four diagonals.
GIndices ==
    << << 0, 4, 8, 12 >>, << 1, 5, 9, 13 >>, << 2, 6, 10, 14 >>,
       << 3, 7, 11, 15 >>, << 0, 5, 10, 15 >>, << 1, 6, 11, 12 >>,
       << 2, 7, 8, 13 >>, << 3, 4, 9, 14 >> >>

\* The message word indices (Go indices) the eight G calls of each of the
\* seven rounds take, in the order written in compress().
MessageSchedule ==
    << << 0, 1, 2, 3, 4, 5, 6, 7, 8, 9, 10, 11, 12, 13, 14, 15 >>,
       << 2, 6, 3, 10, 7, 0, 4, 13, 1, 11, 12, 5, 9, 14, 15, 8 >>,
       << 3, 4, 10, 12, 13, 2, 7, 14, 6, 5, 9, 0, 11, 15, 8, 1 >>,
       << 10, 7, 12, 9, 14, 3, 13, 15, 4, 0, 11, 2, 5, 8, 1, 6 >>,
       << 12, 13, 9, 11, 15, 10, 14, 8, 7, 2, 5, 3, 0, 1, 6, 4 >>,
       << 9, 14, 11, 5, 8, 12, 15, 1, 13, 3, 0, 10, 2, 6, 4, 7 >>,
       << 11, 15, 5, 0, 1, 9, 8, 6, 14, 10, 2, 12, 3, 4, 7, 13 >> >>

\* The G calls of compress(), numbered 1..56 in the order written: call k
\* is call ((k - 1) % 8) + 1 of round ((k - 1) \div 8) + 1.
gCallNumber(v, m, k) ==
    gCall(v, GIndices[((k - 1) % 8) + 1],
          m[MessageSchedule[((k - 1) \div 8) + 1][(2 * (((k - 1) % 8) + 1)) - 1] + 1],
          m[MessageSchedule[((k - 1) \div 8) + 1][2 * (((k - 1) % 8) + 1)] + 1])

\* G calls lo..hi, in eight runs of n calls, one after the other; the
\* tuple holds the state after each run.
RECURSIVE GCalls(_, _, _, _)
GCalls(v, m, lo, hi) ==
    IF lo > hi THEN v
    ELSE IF lo = hi THEN gCallNumber(v, m, lo)
    ELSE LET n == (hi - lo + 8) \div 8
             v1 == GCalls(v, m, lo, lo + n - 1)
             v2 == GCalls(v1, m, lo + n, Min(hi, lo + (2 * n) - 1))
             v3 == GCalls(v2, m, lo + (2 * n), Min(hi, lo + (3 * n) - 1))
             v4 == GCalls(v3, m, lo + (3 * n), Min(hi, lo + (4 * n) - 1))
             v5 == GCalls(v4, m, lo + (4 * n), Min(hi, lo + (5 * n) - 1))
             v6 == GCalls(v5, m, lo + (5 * n), Min(hi, lo + (6 * n) - 1))
             v7 == GCalls(v6, m, lo + (6 * n), Min(hi, lo + (7 * n) - 1))
             v8 == GCalls(v7, m, lo + (7 * n), hi)
         IN  << v1, v2, v3, v4, v5, v6, v7, v8 >>[8]

\* The output of compress() from the state v after the last round.
CompressOutput(h, v) ==
    << v,
       << Xor32(v[1], v[9]), Xor32(v[2], v[10]), Xor32(v[3], v[11]),
          Xor32(v[4], v[12]), Xor32(v[5], v[13]), Xor32(v[6], v[14]),
          Xor32(v[7], v[15]), Xor32(v[8], v[16]),
          Xor32(v[9], h[1]), Xor32(v[10], h[2]), Xor32(v[11], h[3]),
          Xor32(v[12], h[4]), Xor32(v[13], h[5]), Xor32(v[14], h[6]),
          Xor32(v[15], h[7]), Xor32(v[16], h[8]) >> >>[2]

\* compress(h, m, t, b, d): the BLAKE3 compression function.  h and m hold
\* uint32 pairs; the uint64 counter t and the uint32 b and d are integers
\* (every caller passes values below 2^31).
compress(h, m, t, b, d) ==
    << h, m,
       CompressOutput(h,
           GCalls(<< h[1], h[2], h[3], h[4], h[5], h[6], h[7], h[8],
                     iv[1], iv[2], iv[3], iv[4],
                     U32(t), U32(0), U32(b), U32(d) >>, m, 1, 56)) >>[3]

\* truncate(): the first 256 bits of a compression output.
truncate(in) == SubSeq(in, 1, 8)

\* concatenate(): two chaining values form a parent node message.
concatenate(a, b) == a \o b

\* binary.LittleEndian.Uint32(b[off:]) with off a Go index.
Uint32LE(b, off) ==
    << b[off + 1] + 256 * b[off + 2], b[off + 3] + 256 * b[off + 4] >>

\* binary.LittleEndian.PutUint32: the four bytes of a uint32.
PutUint32LE(w) ==
    << w[1] % 256, w[1] \div 256, w[2] % 256, w[2] \div 256 >>

\* The little endian encoding of a sequence of uint32 words (the loops
\* over binary.LittleEndian.PutUint32), the two halves one after the other.
RECURSIVE WordsToBytes(_)
WordsToBytes(ws) ==
    IF Len(ws) = 0 THEN << >>
    ELSE IF Len(ws) = 1 THEN PutUint32LE(ws[1])
    ELSE WordsToBytes(SubSeq(ws, 1, Len(ws) \div 2))
         \o WordsToBytes(SubSeq(ws, (Len(ws) \div 2) + 1, Len(ws)))

\* The n little endian uint32 words at b[off:] (the loops over
\* binary.LittleEndian.Uint32), the two halves one after the other.
RECURSIVE BytesToWords(_, _, _)
BytesToWords(b, off, n) ==
    IF n = 0 THEN << >>
    ELSE IF n = 1 THEN << Uint32LE(b, off) >>
    ELSE BytesToWords(b, off, n \div 2)
         \o BytesToWords(b, off + 4 * (n \div 2), n - (n \div 2))

(***************************************************************************)
(* Node in the BLAKE3 Merkle tree.                                         *)
(***************************************************************************)
NewChunkNode(chainingValue, m, blockSize, chunkStart) ==
    [chainingValue |-> chainingValue,
     m |-> m,
     blockSize |-> blockSize,
     flags |-> IF chunkStart THEN flagChunkEnd + flagChunkStart
               ELSE flagChunkEnd]

NewParentNode(m) ==
    [chainingValue |-> iv,
     m |-> m,
     blockSize |-> maximumBlockSize,
     flags |-> flagParent]

\* n.flags & flag != 0, for a single-bit flag.
HasFlag(flags, flag) == (flags \div flag) % 2 = 1

\* Node.GetChunkData: panics unless the node is a chunk end node.
GetChunkData(n) ==
    IF ~HasFlag(n.flags, flagChunkEnd)
    THEN [panic |-> "Node is not a chunk end node"]
    ELSE [panic |-> "",
          chainingValue |-> n.chainingValue,
          m |-> n.m,
          blockSize |-> n.blockSize,
          chunkStart |-> HasFlag(n.flags, flagChunkStart)]

\* Node.GetParentData: panics unless the node is a parent node.
GetParentData(n) ==
    IF n.flags # flagParent
    THEN [panic |-> "Node is not a parent node"]
    ELSE [panic |-> "", m |-> n.m]

\* The chaining value of a node computed with a chunk counter of one.
NodeChainingValueCounted(n) ==
    truncate(compress(n.chainingValue, n.m, 1, n.blockSize, n.flags))

\* The chaining value of a node: truncate(compress(cv, m, 0, blockSize,
\* flags)), as computed in AppendNode and GetRootNode.
NodeChainingValue(n) ==
    truncate(compress(n.chainingValue, n.m, 0, n.blockSize, n.flags))

\* Node.GetHashValue(outputSizeBytes, b): the extendable output, one
\* compression per 64 bytes with an incrementing counter and the root flag.
\* HashOutputAfter takes the bytes of the compression with the counter.
RECURSIVE HashOutput(_, _, _)
RECURSIVE HashOutputAfter(_, _, _, _)
HashOutput(n, counter, remaining) ==
    IF remaining <= 0 THEN << >>
    ELSE HashOutputAfter(n, counter, remaining,
             WordsToBytes(compress(n.chainingValue, n.m, counter,
                                   n.blockSize, n.flags + flagRoot)))

HashOutputAfter(n, counter, remaining, bytes) ==
    IF remaining <= Len(bytes) THEN SubSeq(bytes, 1, remaining)
    ELSE bytes \o HashOutput(n, counter + 1, remaining - Len(bytes))

GetHashValue(n, outputSizeBytes, b) == b \o HashOutput(n, 0, outputSizeBytes)

(***************************************************************************)
(* ChainingValueStack.                                                     *)
(***************************************************************************)
NewChainingValueStack == [stack |-> << >>, totalNodes |-> 0]

\* The merge loop of AppendNode: while the node count has a trailing one
\* bit, pop the top of the stack and replace the chaining value by that of
\* the parent node.  AppendNodeMerged takes the parent's chaining value.
RECURSIVE AppendNodeMerge(_, _, _)
RECURSIVE AppendNodeMerged(_, _, _)
AppendNodeMerge(stack, chainingValue, totalNodes) ==
    IF totalNodes % 2 # 0
    THEN AppendNodeMerged(
             stack,
             truncate(compress(iv,
                               concatenate(stack[Len(stack)], chainingValue),
                               0, maximumBlockSize, flagParent)),
             totalNodes)
    ELSE Append(stack, chainingValue)

AppendNodeMerged(stack, parent, totalNodes) ==
    << parent,
       AppendNodeMerge(SubSeq(stack, 1, Len(stack) - 1), parent,
                       totalNodes \div 2) >>[2]

\* AppendNode that pushes the chaining value without merging subtrees.
AppendNodeUnmerged(s, n) ==
    [stack |-> Append(s.stack, NodeChainingValue(n)),
     totalNodes |-> s.totalNodes + 1]

AppendNode(s, n) ==
    [stack |-> AppendNodeMerge(s.stack, NodeChainingValue(n), s.totalNodes),
     totalNodes |-> s.totalNodes + 1]

\* The loop of GetRootNode, i running from len(stack)-1 down to 0.
\* RootNodeAfter takes the parent node iteration i makes.
RECURSIVE RootNodeFrom(_, _, _)
RECURSIVE RootNodeAfter(_, _, _)
RootNodeFrom(stack, n, i) ==
    IF i < 0 THEN n
    ELSE RootNodeAfter(stack,
                       NewParentNode(concatenate(stack[i + 1],
                                                 NodeChainingValue(n))),
                       i)

RootNodeAfter(stack, parent, i) ==
    << parent, RootNodeFrom(stack, parent, i - 1) >>[2]

StackGetRootNode(s, lastNode) == RootNodeFrom(s.stack, lastNode, Len(s.stack) - 1)

(***************************************************************************)
(* ChunkParser.  The block field holds the blockSize bytes written into    *)
(* the current 64 byte block so far.                                       *)
(***************************************************************************)
NewChunkParser ==
    [block |-> << >>,
     blocksRemaining |-> maximumBlocksPerChunk,
     chunkChainingValue |-> iv,
     chunkStart |-> TRUE,
     chainingValueStack |-> NewChainingValueStack]

\* 64 zero bytes.
ZeroBlock == [i \in 1..maximumBlockSize |-> 0]

\* ChunkParser.getBlock over a full (or zero padded) 64 byte block.
getBlock(block) == BytesToWords(block, 0, 16)

\* The body of the loop of ChunkParser.Write once the current 64 byte
\* block is complete and more input follows: the block is compressed into
\* the chunk's chaining value, or, when it is the chunk's last block, the
\* chunk node is appended to the chaining value stack.
ChunkParserCompleteBlock(p, block) ==
    IF p.blocksRemaining = 1
    THEN [block |-> << >>,
          blocksRemaining |-> maximumBlocksPerChunk,
          chunkChainingValue |-> iv,
          chunkStart |-> TRUE,
          chainingValueStack |->
              AppendNode(p.chainingValueStack,
                         NewChunkNode(p.chunkChainingValue, getBlock(block),
                                      maximumBlockSize, FALSE))]
    ELSE [block |-> << >>,
          blocksRemaining |-> p.blocksRemaining - 1,
          chunkChainingValue |->
              truncate(compress(p.chunkChainingValue, getBlock(block), 0,
                                maximumBlockSize,
                                IF p.chunkStart THEN flagChunkStart ELSE 0)),
          chunkStart |-> FALSE,
          chainingValueStack |-> p.chainingValueStack]

\* Iterations lo..hi of the loop of ChunkParser.Write(b) that complete a
\* block.  Iteration k (from 1) copies b[first + 64 * (k - 2) : first + 64 *
\* (k - 1)] (the first one b[:first]) into the block, where first is the
\* room left in the block when Write is called.  The iterations are taken
\* in eight runs of n, one after the other; the tuple holds the parser
\* after each run.
RECURSIVE ChunkParserWriteBlocks(_, _, _, _, _)
ChunkParserWriteBlocks(p, b, first, lo, hi) ==
    IF lo > hi THEN p
    ELSE IF lo = hi
    THEN LET from == IF lo = 1 THEN 0 ELSE first + maximumBlockSize * (lo - 2)
             to == first + maximumBlockSize * (lo - 1)
         IN  ChunkParserCompleteBlock(p, p.block \o SubSeq(b, from + 1, to))
    ELSE LET n == (hi - lo + 8) \div 8
             p1 == ChunkParserWriteBlocks(p, b, first, lo, lo + n - 1)
             p2 == ChunkParserWriteBlocks(p1, b, first, lo + n,
                                          Min(hi, lo + (2 * n) - 1))
             p3 == ChunkParserWriteBlocks(p2, b, first, lo + (2 * n),
                                          Min(hi, lo + (3 * n) - 1))
             p4 == ChunkParserWriteBlocks(p3, b, first, lo + (3 * n),
                                          Min(hi, lo + (4 * n) - 1))
             p5 == ChunkParserWriteBlocks(p4, b, first, lo + (4 * n),
                                          Min(hi, lo + (5 * n) - 1))
             p6 == ChunkParserWriteBlocks(p5, b, first, lo + (5 * n),
                                          Min(hi, lo + (6 * n) - 1))
             p7 == ChunkParserWriteBlocks(p6, b, first, lo + (6 * n),
                                          Min(hi, lo + (7 * n) - 1))
             p8 == ChunkParserWriteBlocks(p7, b, first, lo + (7 * n), hi)
         IN  << p1, p2, p3, p4, p5, p6, p7, p8 >>[8]

\* ChunkParser.Write that completes a block as soon as it is full, without
\* waiting for more input.
ChunkParserWriteEager(p, b) ==
    LET first == maximumBlockSize - Len(p.block)
        full == IF Len(b) < first THEN 0
                ELSE 1 + ((Len(b) - first) \div maximumBlockSize)
        consumed == IF full = 0 THEN 0
                    ELSE first + maximumBlockSize * (full - 1)
    IN  [ChunkParserWriteBlocks(p, b, first, 1, full)
             EXCEPT !.block = @ \o SubSeq(b, consumed + 1, Len(b))]

\* ChunkParser.Write(b): every block that b completes while more input
\* follows is processed; the bytes after the last such block stay in the
\* current block.
ChunkParserWrite(p, b) ==
    LET first == maximumBlockSize - Len(p.block)
        \* Number of loop iterations that find input left after copying.
        full == IF Len(b) <= first THEN 0
                ELSE 1 + ((Len(b) - first - 1) \div maximumBlockSize)
        consumed == IF full = 0 THEN 0
                    ELSE first + maximumBlockSize * (full - 1)
    IN  [ChunkParserWriteBlocks(p, b, first, 1, full)
             EXCEPT !.block = @ \o SubSeq(b, consumed + 1, Len(b))]

\* The chunk node of the final block, padded with zeroes.
ChunkParserLastNode(p) ==
    NewChunkNode(p.chunkChainingValue,
                 getBlock(p.block \o SubSeq(ZeroBlock, 1,
                                            maximumBlockSize - Len(p.block))),
                 Len(p.block), p.chunkStart)

\* ChunkParser.GetRootNode: pad the final block with zeroes, wrap it in a
\* chunk node and terminate the Merkle tree with it.
ChunkParserGetRootNode(p) ==
    << p, StackGetRootNode(p.chainingValueStack, ChunkParserLastNode(p)) >>[2]

\* blake3zccBlobHasher.
newBLAKE3ZCCBlobHasher(outputSizeBytes) ==
    [p |-> NewChunkParser, outputSizeBytes |-> outputSizeBytes]

BlobHasherWrite(h, p) == [h EXCEPT !.p = ChunkParserWrite(@, p)]

\* Sum(b): the root node n, then its hash value.
BlobHasherSumNode(h, b, n) ==
    << n, GetHashValue(n, h.outputSizeBytes, b) >>[2]

BlobHasherSum(h, b) == BlobHasherSumNode(h, b, ChunkParserGetRootNode(h.p))

(***************************************************************************)
(* Strings (strings, strconv, fmt and encoding/hex).                       *)
(***************************************************************************)
\* The characters with byte values 45..58, 65..90 and 97..122.
AsciiFrom45 ==
    << "-", ".", "/", "0", "1", "2", "3", "4", "5", "6", "7", "8", "9", ":" >>

AsciiFrom65 ==
    << "A", "B", "C", "D", "E", "F", "G", "H", "I", "J", "K", "L", "M",
       "N", "O", "P", "Q", "R", "S", "T", "U", "V", "W", "X", "Y", "Z" >>

AsciiFrom97 ==
    << "a", "b", "c", "d", "e", "f", "g", "h", "i", "j", "k", "l", "m",
       "n", "o", "p", "q", "r", "s", "t", "u", "v", "w", "x", "y", "z" >>

IndexIn(table, c) == CHOOSE i \in DOMAIN table : table[i] = c

\* The byte value of a character of these tables.
Ascii(c) ==
    IF \E i \in DOMAIN AsciiFrom45 : AsciiFrom45[i] = c
    THEN 44 + IndexIn(AsciiFrom45, c)
    ELSE IF \E i \in DOMAIN AsciiFrom65 : AsciiFrom65[i] = c
    THEN 64 + IndexIn(AsciiFrom65, c)
    ELSE 96 + IndexIn(AsciiFrom97, c)

\* strings.HasPrefix.
HasPrefix(s, prefix) ==
    Len(s) >= Len(prefix) /\ SubSeq(s, 1, Len(prefix)) = prefix

\* The %d verb of fmt.Sprintf.
RECURSIVE FormatDigits(_)
FormatDigits(n) ==
    IF n < 10 THEN << AsciiFrom45[n + 4] >>
    ELSE Append(FormatDigits(n \div 10), AsciiFrom45[(n % 10) + 4])

FormatInt(n) == IF n < 0 THEN << "-" >> \o FormatDigits(-n) ELSE FormatDigits(n)

\* hex.EncodeToString, the two halves of the input one after the other.
HexDigits ==
    << "0", "1", "2", "3", "4", "5", "6", "7",
       "8", "9", "a", "b", "c", "d", "e", "f" >>

RECURSIVE EncodeToString(_)
EncodeToString(b) ==
    IF Len(b) = 0 THEN << >>
    ELSE IF Len(b) = 1
    THEN << HexDigits[(b[1] \div 16) + 1], HexDigits[(b[1] % 16) + 1] >>
    ELSE EncodeToString(SubSeq(b, 1, Len(b) \div 2))
         \o EncodeToString(SubSeq(b, (Len(b) \div 2) + 1, Len(b)))

(***************************************************************************)
(* digest.go: Digest.  A Digest is its value string "hash-size-instance".  *)
(***************************************************************************)
BadDigest == << >>

\* md5.Size.
md5Size == 16

\* The Go indices at or after from at which value holds a dash.
DashesFrom(value, from) == { j \in from..(Len(value) - 1) : value[j + 1] = "-" }

\* The size loop of unpack() over value[from:to]: decimal digits, each
\* taken as the byte difference with the digit zero.
RECURSIVE UnpackSize(_, _, _)
UnpackSize(value, from, to) ==
    IF from >= to THEN 0
    ELSE UnpackSize(value, from, to - 1) * 10
         + ((Ascii(value[to]) - Ascii("0")) % 256)

\* Digest.unpack(): the Go index of the dash that ends the hash (searched
\* from index md5.Size * 2), the size, and the index of the dash that ends
\* the size.  Running off the end of the string panics.
unpack(d) ==
    LET hashEnds == DashesFrom(d, md5Size * 2)
        hashEnd == CHOOSE j \in hashEnds : \A k \in hashEnds : j <= k
        sizeEnds == DashesFrom(d, hashEnd + 1)
        sizeBytesEnd == CHOOSE j \in sizeEnds : \A k \in sizeEnds : j <= k
    IN  IF hashEnds = {} \/ sizeEnds = {}
        THEN [panic |-> TRUE, hashEnd |-> 0, sizeBytes |-> 0, sizeBytesEnd |-> 0]
        ELSE [panic |-> FALSE,
              hashEnd |-> hashEnd,
              sizeBytes |-> UnpackSize(d, hashEnd + 1, sizeBytesEnd),
              sizeBytesEnd |-> sizeBytesEnd]

\* status.Errorf / status.Error: a status code and a message, kept as the
\* chain of formats and arguments from the outermost wrapper inwards.
StatusErrorf(code, format, args) ==
    [code |-> code, chain |-> << [format |-> format, args |-> args] >>]

\* A nil error.
NoError == [code |-> "OK", chain |-> << >>]

newDigestUnchecked(instance, hash, sizeBytes) ==
    hash \o << "-" >> \o FormatInt(sizeBytes) \o << "-" >> \o instance

InvalidDigestSize(sizeBytes) ==
    StatusErrorf("InvalidArgument", "Invalid digest size: %d bytes",
                 << FormatInt(sizeBytes) >>)

newDigestBLAKE3ZCC(instance, hash, sizeBytes) ==
    IF sizeBytes < 0
    THEN [digest |-> BadDigest, err |-> InvalidDigestSize(sizeBytes)]
    ELSE [digest |-> << "B", "3", "Z", ":" >> \o hash \o << "-" >>
                     \o FormatInt(sizeBytes) \o << "-" >> \o instance,
          err |-> NoError]

newDigestBLAKE3ZCCManifest(instance, hash, sizeBytes) ==
    IF sizeBytes < 0
    THEN [digest |-> BadDigest, err |-> InvalidDigestSize(sizeBytes)]
    ELSE [digest |-> << "B", "3", "Z", "M", ":" >> \o hash \o << "-" >>
                     \o FormatInt(sizeBytes) \o << "-" >> \o instance,
          err |-> NoError]

\* The hash lengths newDigestOther accepts: twice md5.Size, sha1.Size,
\* sha256.Size, sha512.Size384 and sha512.Size.
OtherHashLengths == { md5Size * 2, 40, 64, 96, 128 }

newDigestOther(instance, hash, sizeBytes) ==
    IF sizeBytes < 0
    THEN [digest |-> BadDigest, err |-> InvalidDigestSize(sizeBytes)]
    ELSE IF Len(hash) \notin OtherHashLengths
    THEN [digest |-> BadDigest,
          err |-> StatusErrorf("InvalidArgument",
                               "Unknown digest hash length: %d characters",
                               << FormatInt(Len(hash)) >>)]
    ELSE IF \E i \in DOMAIN hash : hash[i] \notin { HexDigits[k] : k \in DOMAIN HexDigits }
    THEN [digest |-> BadDigest,
          err |-> StatusErrorf("InvalidArgument",
                               "Non-hexadecimal character in digest hash: %#U",
                               << << hash[CHOOSE i \in DOMAIN hash :
                                         /\ hash[i] \notin { HexDigits[k] : k \in DOMAIN HexDigits }
                                         /\ \A j \in 1..(i - 1) :
                                               hash[j] \in { HexDigits[k] : k \in DOMAIN HexDigits }] >> >>)]
    ELSE [digest |-> newDigestUnchecked(instance, hash, sizeBytes), err |-> NoError]

NewDigest(instance, hash, sizeBytes) ==
    IF HasPrefix(hash, << "B", "3", "Z", ":" >>)
    THEN newDigestBLAKE3ZCC(instance, SubSeq(hash, 5, Len(hash)), sizeBytes)
    ELSE IF HasPrefix(hash, << "B", "3", "Z", "M", ":" >>)
    THEN newDigestBLAKE3ZCCManifest(instance, SubSeq(hash, 6, Len(hash)), sizeBytes)
    ELSE newDigestOther(instance, hash, sizeBytes)

\* panic(err): the panic carries the error.
PanicWith(err) ==
    [code |-> "PANIC", chain |-> << [format |-> "%v", args |-> << err >>] >>]

\* The panic of an index past the end of a string or a slice.
IndexOutOfRange ==
    [code |-> "PANIC",
     chain |-> << [format |-> "index out of range", args |-> << >>] >>]

\* MustNewDigest: the digest of NewDigest, or a panic with its error.
MustNewDigest(instance, hash, sizeBytes) ==
    LET n == NewDigest(instance, hash, sizeBytes)
    IN  IF n.err # NoError THEN PanicWith(n.err) ELSE n.digest

\* GetInstance, GetHashString and GetSizeBytes yield the field, or the
\* panic of unpack().
GetInstance(d) ==
    IF unpack(d).panic THEN IndexOutOfRange
    ELSE SubSeq(d, unpack(d).sizeBytesEnd + 2, Len(d))

GetHashString(d) ==
    IF unpack(d).panic THEN IndexOutOfRange
    ELSE SubSeq(d, 1, unpack(d).hashEnd)

GetSizeBytes(d) ==
    IF unpack(d).panic THEN IndexOutOfRange
    ELSE unpack(d).sizeBytes

\* convertSizeToBlockCount, for sizes below 2^31.
convertSizeToBlockCount(blobSizeBytes, blockSizeBytes) ==
    (blobSizeBytes + blockSizeBytes - 1) \div blockSizeBytes

(***************************************************************************)
(* blake3zcc_manifest.go: the serialized Merkle tree nodes.                *)
(***************************************************************************)
blake3zccChunkNodeSizeBytes == 97

blake3zccParentNodeSizeBytes == 64

\* Reading past the end of entry panics (index out of range).
unmarshalBLAKE3ZCCChunkNode(entry) ==
    IF Len(entry) < blake3zccChunkNodeSizeBytes
    THEN [panic |-> "index out of range"]
    ELSE [panic |-> "",
          node |-> NewChunkNode(BytesToWords(entry, 0, 8),
                                BytesToWords(entry, 32, 16),
                                entry[97] % 128,
                                entry[97] >= 128)]

\* entry[0] = byte(blockSize &^ 0x80), or-ed with 0x80 on chunk start.
marshalBLAKE3ZCCChunkNode(n) ==
    LET data == GetChunkData(n)
    IN  IF data.panic # "" THEN [panic |-> data.panic, entry |-> << >>]
        ELSE [panic |-> "",
              entry |-> WordsToBytes(data.chainingValue)
                        \o WordsToBytes(data.m)
                        \o << (data.blockSize % 128)
                              + (IF data.chunkStart THEN 128 ELSE 0) >>]

unmarshalBLAKE3ZCCParentNode(entry) ==
    IF Len(entry) < blake3zccParentNodeSizeBytes
    THEN [panic |-> "index out of range"]
    ELSE [panic |-> "", node |-> NewParentNode(BytesToWords(entry, 0, 16))]

marshalBLAKE3ZCCParentNode(n) ==
    LET data == GetParentData(n)
    IN  IF data.panic # "" THEN [panic |-> data.panic, entry |-> << >>]
        ELSE [panic |-> "", entry |-> WordsToBytes(data.m)]

(***************************************************************************)
(* digest.go: Digest.ToManifest.                                           *)
(***************************************************************************)
NilManifestParser ==
    [instance |-> << >>, blobSizeBytes |-> 0, blockSizeBytes |-> 0,
     hashSizeBytes |-> 0]

newBLAKE3ZCCManifestParser(instance, blobSizeBytes, blockSizeBytes, hashSizeBytes) ==
    [instance |-> instance,
     blobSizeBytes |-> blobSizeBytes,
     blockSizeBytes |-> blockSizeBytes,
     hashSizeBytes |-> hashSizeBytes]

\* ToManifest with a prefix test that forgets the colon, and so takes the
\* digest of a manifest for the digest of a blob.
ToManifestPrefixWithoutColon == << "B", "3", "Z" >>

\* ToManifest with a size test that lets a blob of exactly one block through.
ToManifestTooSmallStrict(sizeBytes, blockSizeBytes) == sizeBytes < blockSizeBytes

\* ToManifest: the prefix of the digests it decomposes.
ToManifestPrefix == << "B", "3", "Z", ":" >>

\* ToManifest: the test that refuses to decompose a blob of one block.
ToManifestTooSmall(sizeBytes, blockSizeBytes) == sizeBytes <= blockSizeBytes

\* ToManifest: the size of the manifest of a blob.
ToManifestSizeBytes(sizeBytes, blockSizeBytes) ==
    LET lastBlockSizeBytes == sizeBytes % blockSizeBytes
    IN  convertSizeToBlockCount(sizeBytes, blockSizeBytes)
            * blake3zccParentNodeSizeBytes
        + (IF lastBlockSizeBytes > 0 /\ lastBlockSizeBytes <= 1024
           THEN blake3zccChunkNodeSizeBytes - blake3zccParentNodeSizeBytes
           ELSE 0)

ToManifest(d, blockSizeBytes) ==
    IF ~HasPrefix(d, ToManifestPrefix)
    THEN [manifestDigest |-> BadDigest, manifestParser |-> NilManifestParser,
          ok |-> FALSE]
    ELSE LET u == unpack(d)
             hash == SubSeq(d, 5, u.hashEnd)
             instance == SubSeq(d, u.sizeBytesEnd + 2, Len(d))
         IN  IF u.panic
             THEN IndexOutOfRange
             ELSE IF ToManifestTooSmall(u.sizeBytes, blockSizeBytes)
             THEN [manifestDigest |-> BadDigest,
                   manifestParser |-> NilManifestParser, ok |-> FALSE]
             ELSE [manifestDigest |->
                       << "B", "3", "Z", "M", ":" >> \o hash \o << "-" >>
                       \o FormatInt(ToManifestSizeBytes(u.sizeBytes, blockSizeBytes))
                       \o << "-" >> \o instance,
                   manifestParser |->
                       newBLAKE3ZCCManifestParser(instance, u.sizeBytes,
                                                  blockSizeBytes,
                                                  Len(hash) \div 2),
                   ok |-> TRUE]

(***************************************************************************)
(* blake3zcc_manifest_parser.go.                                           *)
(***************************************************************************)
convertNodeToDigest(mp, n, blockSizeBytes) ==
    << "B", "3", "Z", ":" >>
    \o EncodeToString(GetHashValue(n, mp.hashSizeBytes, << >>))
    \o << "-" >> \o FormatInt(blockSizeBytes) \o << "-" >> \o mp.instance

\* GetBlockDigest: the size of the block that holds offset off.
GetBlockSizeBytes(mp, off) ==
    IF off \div mp.blockSizeBytes
       = convertSizeToBlockCount(mp.blobSizeBytes, mp.blockSizeBytes) - 1
    THEN mp.blobSizeBytes % mp.blockSizeBytes
    ELSE mp.blockSizeBytes

\* GetBlockDigest(manifest, off): the digest and the start offset of the
\* block that holds offset off.  Slicing the manifest past its end and
\* unmarshaling a node from too short an entry panic.
GetBlockDigest(mp, manifest, off) ==
    LET block == off \div mp.blockSizeBytes
        blockSizeBytes == GetBlockSizeBytes(mp, off)
        from == block * blake3zccParentNodeSizeBytes
        entry == SubSeq(manifest, from + 1, Len(manifest))
        n == IF blockSizeBytes <= 1024
             THEN unmarshalBLAKE3ZCCChunkNode(entry)
             ELSE unmarshalBLAKE3ZCCParentNode(entry)
    IN  IF from > Len(manifest)
        THEN [panic |-> "slice bounds out of range", digest |-> BadDigest,
              offset |-> 0]
        ELSE IF n.panic # ""
        THEN [panic |-> n.panic, digest |-> BadDigest, offset |-> 0]
        ELSE [panic |-> "",
              digest |-> convertNodeToDigest(mp, n.node, blockSizeBytes),
              offset |-> block * mp.blockSizeBytes]

\* AppendBlockDigest, after the Merkle tree node n of the block has been
\* computed: the node is appended to the manifest in binary form.
AppendBlockDigestNode(mp, manifest, block, n) ==
    LET entry == IF Len(block) <= 1024
                 THEN marshalBLAKE3ZCCChunkNode(n)
                 ELSE marshalBLAKE3ZCCParentNode(n)
    IN  << n,
           IF entry.panic # ""
           THEN [panic |-> entry.panic, manifest |-> manifest,
                 digest |-> BadDigest]
           ELSE [panic |-> "",
                 manifest |-> manifest \o entry.entry,
                 digest |-> convertNodeToDigest(mp, n, Len(block))] >>[2]

\* AppendBlockDigest(&manifest, block): the manifest with the node of the
\* block appended, and the digest of the block.
AppendBlockDigest(mp, manifest, block) ==
    AppendBlockDigestNode(mp, manifest, block,
        ChunkParserGetRootNode(ChunkParserWrite(NewChunkParser, block)))

(***************************************************************************)
(* blake3zcc_manifest_hasher.go.                                           *)
(***************************************************************************)
newBLAKE3ZCCManifestHasher(outputSizeBytes) ==
    [entry |-> [i \in 1..blake3zccChunkNodeSizeBytes |-> 0],
     entrySize |-> 0,
     chainingValueStack |-> NewChainingValueStack,
     outputSizeBytes |-> outputSizeBytes]

\* blake3zccManifestHasher.Write(p).
RECURSIVE ManifestHasherWrite(_, _)
ManifestHasherWrite(h, p) ==
    LET n == Min(blake3zccChunkNodeSizeBytes - h.entrySize, Len(p))
        entry == SubSeq(h.entry, 1, h.entrySize) \o SubSeq(p, 1, n)
                 \o SubSeq(h.entry, h.entrySize + n + 1,
                           blake3zccChunkNodeSizeBytes)
        rest == SubSeq(p, n + 1, Len(p))
        node == unmarshalBLAKE3ZCCParentNode(entry).node
        shifted == SubSeq(entry, blake3zccParentNodeSizeBytes + 1,
                          blake3zccChunkNodeSizeBytes)
                   \o SubSeq(entry,
                             blake3zccChunkNodeSizeBytes
                                 - blake3zccParentNodeSizeBytes + 1,
                             blake3zccChunkNodeSizeBytes)
        next == [h EXCEPT !.entry = shifted,
                          !.entrySize = blake3zccChunkNodeSizeBytes
                                        - blake3zccParentNodeSizeBytes,
                          !.chainingValueStack = AppendNode(@, node)]
    IN  IF Len(rest) = 0
        THEN [h EXCEPT !.entry = entry, !.entrySize = h.entrySize + n]
        ELSE << next, ManifestHasherWrite(next, rest) >>[2]

\* blake3zccManifestHasher.Reset(): the bytes of the entry stay.
ManifestHasherReset(h) ==
    [h EXCEPT !.entrySize = 0, !.chainingValueStack = NewChainingValueStack]

\* Sum that takes whatever the entry holds for a parent node.
ManifestHasherSumLenient(h, b) ==
    LET lastNode ==
            IF h.entrySize = blake3zccChunkNodeSizeBytes
            THEN unmarshalBLAKE3ZCCChunkNode(h.entry).node
            ELSE unmarshalBLAKE3ZCCParentNode(h.entry).node
        rootNode == StackGetRootNode(h.chainingValueStack, lastNode)
    IN  [panic |-> "",
         sum |-> << lastNode, rootNode,
                    GetHashValue(rootNode, h.outputSizeBytes, b) >>[3]]

\* blake3zccManifestHasher.Sum(b).
ManifestHasherSum(h, b) ==
    LET lastNode ==
            IF h.entrySize = blake3zccChunkNodeSizeBytes
            THEN unmarshalBLAKE3ZCCChunkNode(h.entry).node
            ELSE unmarshalBLAKE3ZCCParentNode(h.entry).node
        rootNode == StackGetRootNode(h.chainingValueStack, lastNode)
    IN  IF h.entrySize # blake3zccChunkNodeSizeBytes
           /\ h.entrySize # blake3zccParentNodeSizeBytes
        THEN [panic |-> "Manifest has invalid size", sum |-> << >>]
        ELSE [panic |-> "",
              sum |-> << lastNode, rootNode,
                         GetHashValue(rootNode, h.outputSizeBytes, b) >>[3]]

(***************************************************************************)
(* Errors.  io.EOF and the gRPC status errors; a panic unwinds through     *)
(* every caller like an error no caller handles, and is carried as an      *)
(* error with code "PANIC".                                                 *)
(***************************************************************************)
EOF == [code |-> "EOF", chain |-> << >>]

Panic(message) == [code |-> "PANIC", chain |-> << [format |-> message, args |-> << >>] >>]

\* util.StatusWrap(err, msg): the code of err, the message prefixed.
StatusWrap(err, msg) ==
    [code |-> err.code,
     chain |-> << [format |-> msg, args |-> << >>] >> \o err.chain]

\* util.StatusWrapf(err, format, args...).
StatusWrapf(err, format, args) ==
    [code |-> err.code,
     chain |-> << [format |-> format, args |-> args] >> \o err.chain]

(***************************************************************************)
(* chunk_policy.go.                                                        *)
(***************************************************************************)
\* int(^uint(0) >> 1), cut to the largest integer TLC represents.
maximumInt == 2147483647

chunkSizeDontCare ==
    [minimumSizeBytes |-> 1,
     defaultSizeBytes |-> 64 * 1024,
     maximumSizeBytes |-> maximumInt]

ChunkSizeAtMost(sizeBytes) ==
    [minimumSizeBytes |-> 1,
     defaultSizeBytes |-> sizeBytes,
     maximumSizeBytes |-> sizeBytes]

\* Put that asks for chunks of at most a block where it needs exactly a
\* block.
ChunkSizeExactlyAsAtMost(sizeBytes) == ChunkSizeAtMost(sizeBytes)

ChunkSizeExactly(sizeBytes) ==
    [minimumSizeBytes |-> sizeBytes,
     defaultSizeBytes |-> sizeBytes,
     maximumSizeBytes |-> sizeBytes]

(***************************************************************************)
(* Buffers and the base BlobAccess.  A Buffer that is not a concatenating  *)
(* buffer is the stream it is backed by: the size it states, the chunks    *)
(* its backing reader hands out and the error that ends the stream (io.EOF *)
(* when it ends well).                                                     *)
(***************************************************************************)
NewValidatedBufferFromByteSlice(data) ==
    [sizeBytes |-> Len(data),
     chunks |-> IF Len(data) = 0 THEN << >> ELSE << data >>,
     err |-> EOF]

NewBufferFromError(err) == [sizeBytes |-> 0, chunks |-> << >>, err |-> err]

\* A ChunkReader that hands out the given chunks and then err; it counts
\* the calls of Read and of Close.
newSourceChunkReader(chunks, err) ==
    [kind |-> "source", chunks |-> chunks, err |-> err, reads |-> 0,
     closes |-> 0]

newErrorChunkReader(err) == newSourceChunkReader(<< >>, err)

SourceChunkReaderRead(r) ==
    IF Len(r.chunks) = 0
    THEN [chunk |-> << >>, err |-> r.err, gets |-> << >>,
          r |-> [r EXCEPT !.reads = @ + 1]]
    ELSE [chunk |-> Head(r.chunks), err |-> NoError, gets |-> << >>,
          r |-> [r EXCEPT !.chunks = Tail(@), !.reads = @ + 1]]

\* validateReaderOffset(length, requested).
validateReaderOffset(length, requested) ==
    IF requested < 0
    THEN StatusErrorf("InvalidArgument", "Negative read offset: %d",
                      << FormatInt(requested) >>)
    ELSE IF requested > length
    THEN StatusErrorf("InvalidArgument",
                      "Buffer is %d bytes in size, while a read at offset %d was requested",
                      << FormatInt(length), FormatInt(requested) >>)
    ELSE NoError

\* The chunks of a stream with its first off bytes discarded.
RECURSIVE DiscardFromChunks(_, _)
DiscardFromChunks(chunks, off) ==
    IF off = 0 \/ Len(chunks) = 0 THEN chunks
    ELSE IF Len(Head(chunks)) <= off
    THEN DiscardFromChunks(Tail(chunks), off - Len(Head(chunks)))
    ELSE << SubSeq(Head(chunks), off + 1, Len(Head(chunks))) >> \o Tail(chunks)

\* All chunks of a stream, concatenated.
RECURSIVE JoinChunks(_)
JoinChunks(chunks) ==
    IF Len(chunks) = 0 THEN << >> ELSE Head(chunks) \o JoinChunks(Tail(chunks))

newNormalizingChunkReader(r, chunkPolicy) ==
    [kind |-> "normalizing",
     r |-> r,
     minimumChunkSizeBytes |-> chunkPolicy.minimumSizeBytes,
     maximumChunkSizeBytes |-> chunkPolicy.maximumSizeBytes,
     lastChunk |-> << >>,
     lastErr |-> NoError]

\* Buffer.ToChunkReader(off, chunkPolicy) of a buffer backed by a stream.
BufferToChunkReader(b, off, chunkPolicy) ==
    IF Len(b.chunks) = 0 /\ b.err # EOF
    THEN newErrorChunkReader(b.err)
    ELSE IF validateReaderOffset(b.sizeBytes, off) # NoError
    THEN newErrorChunkReader(validateReaderOffset(b.sizeBytes, off))
    ELSE newNormalizingChunkReader(
             newSourceChunkReader(DiscardFromChunks(b.chunks, off), b.err),
             chunkPolicy)

\* Buffer.ToByteSlice(maximumSizeBytes) of a buffer backed by a stream.
BufferToByteSlice(b, maximumSizeBytes) ==
    IF Len(b.chunks) = 0 /\ b.err # EOF
    THEN [data |-> << >>, err |-> b.err]
    ELSE IF b.sizeBytes > maximumSizeBytes
    THEN [data |-> << >>,
          err |-> StatusErrorf("InvalidArgument",
                               "Buffer is %d bytes in size, while a maximum of %d bytes is permitted",
                               << FormatInt(b.sizeBytes),
                                  FormatInt(maximumSizeBytes) >>)]
    ELSE IF b.err # EOF THEN [data |-> << >>, err |-> b.err]
    ELSE [data |-> JoinChunks(b.chunks), err |-> NoError]

\* BlobAccess.Get of the base store, which holds a set of [digest, data].
BaseGet(store, d) ==
    IF \E e \in store : e.digest = d
    THEN NewValidatedBufferFromByteSlice(
             (CHOOSE e \in store : e.digest = d).data)
    ELSE NewBufferFromError(
             StatusErrorf("NotFound", "Blob not found", << >>))

\* BlobAccess.Put of the base store: it fails with outcome, or with the
\* error of the buffer, or stores what the buffer holds.
BasePutError(outcome, b) ==
    IF outcome # NoError THEN outcome
    ELSE BufferToByteSlice(b, maximumInt).err

BasePutStore(store, d, outcome, b) ==
    IF BasePutError(outcome, b) # NoError THEN store
    ELSE { e \in store : e.digest # d }
         \cup { [digest |-> d, data |-> BufferToByteSlice(b, maximumInt).data] }

\* The outcomes the base store chooses from when asked to Put.
BasePutOutcomes ==
    { NoError, StatusErrorf("Unavailable", "Server offline", << >>) }

(***************************************************************************)
(* Chunk readers.  Read yields [chunk, err, gets, r]: the chunk and error  *)
(* returned, the digests requested from the base store on the way, and the *)
(* reader afterwards.                                                      *)
(***************************************************************************)
ReadResult(chunk, err, gets, r) ==
    [chunk |-> chunk, err |-> err, gets |-> gets, r |-> r]

newConcatenatingChunkReader(fetcher, sizeBytes, offset) ==
    [kind |-> "concatenating",
     fetcher |-> fetcher,
     sizeBytes |-> sizeBytes,
     r |-> newErrorChunkReader(EOF),
     offset |-> offset]

\* The SmallBufferFetcher that decomposingBlobAccess.Get hands to the
\* concatenating buffer: it captures the manifest and its parser.
DecomposingFetcher(manifestParser, manifest) ==
    [manifestParser |-> manifestParser, manifest |-> manifest]

\* The fetcher, after GetBlockDigest has returned bd (or has panicked).
FetchBlock(store, bd) ==
    IF bd.panic # ""
    THEN [panic |-> bd.panic, digest |-> BadDigest,
          buffer |-> NewBufferFromError(Panic(bd.panic)), offset |-> 0]
    ELSE [panic |-> "", digest |-> bd.digest,
          buffer |-> BaseGet(store, bd.digest), offset |-> bd.offset]

\* The SmallBufferFetcher the tests of the concatenating buffer mock: the
\* buffers it returns tile the content, tiles[k].data being located at
\* tiles[k].offset, and a call at an offset of tile k returns both.  The
\* field digest, which the readers append to the list of what they
\* fetched, holds the offset the call was made with.
TilingFetch(tiles, offset) ==
    IF \E k \in DOMAIN tiles :
           /\ tiles[k].offset <= offset
           /\ offset < tiles[k].offset + Len(tiles[k].data)
    THEN LET tile == tiles[CHOOSE k \in DOMAIN tiles :
                              /\ tiles[k].offset <= offset
                              /\ offset < tiles[k].offset + Len(tiles[k].data)]
         IN  [panic |-> "", digest |-> offset,
              buffer |-> NewValidatedBufferFromByteSlice(tile.data),
              offset |-> tile.offset]
    ELSE [panic |-> "Unexpected call", digest |-> offset,
          buffer |-> NewBufferFromError(Panic("Unexpected call")),
          offset |-> offset]

\* A call of the SmallBufferFetcher: the closure of decomposingBlobAccess.Get
\* or the mock of the tests.
CallFetcher(fetcher, store, offset) ==
    IF "tiles" \in DOMAIN fetcher
    THEN TilingFetch(fetcher.tiles, offset)
    ELSE FetchBlock(store,
                    GetBlockDigest(fetcher.manifestParser, fetcher.manifest,
                                   offset))

\* A ChunkReader that is nil, and the panic of a call on it.
NilChunkReader == [kind |-> "nil"]

NilDereference == Panic("invalid memory address or nil pointer dereference")

RECURSIVE ChunkReaderRead(_, _)
RECURSIVE ChunkReaderClose(_)
RECURSIVE ConcatenatingChunkReaderReadFrom(_, _, _, _)
RECURSIVE ConcatenatingChunkReaderFetched(_, _, _, _)

\* The loop of concatenatingChunkReader.Read.  fetchedAt is the offset of
\* the fetch this call made last (-1: none yet): a fetched buffer that is
\* at its end at once leaves the offset where it was, and the loop fetches
\* the same buffer forever.
ConcatenatingChunkReaderReadFrom(r, store, gets, fetchedAt) ==
    LET u == ChunkReaderRead(r.r, store)
    IN  IF u.err = EOF
        THEN IF r.offset >= r.sizeBytes
             THEN ReadResult(<< >>, EOF, gets, [r EXCEPT !.r = u.r])
             ELSE IF fetchedAt = r.offset
             THEN ReadResult(<< >>, [code |-> "DIVERGES", chain |-> << >>],
                             gets, [r EXCEPT !.r = u.r])
             ELSE ConcatenatingChunkReaderFetched(
                      [r EXCEPT !.r = ChunkReaderClose(u.r)], store, gets,
                      CallFetcher(r.fetcher, store, r.offset))
        ELSE IF u.err = NoError
        THEN ReadResult(u.chunk, NoError, gets,
                        [r EXCEPT !.r = u.r, !.offset = @ + Len(u.chunk)])
        ELSE ReadResult(<< >>, u.err, gets, [r EXCEPT !.r = u.r])

\* The rest of an iteration that fetches: r.r has been closed, and f is
\* what the fetcher returned.
ConcatenatingChunkReaderFetched(r, store, gets, f) ==
    IF f.panic # ""
    THEN ReadResult(<< >>, Panic(f.panic), gets, r)
    ELSE ConcatenatingChunkReaderReadFrom(
             [r EXCEPT !.r = BufferToChunkReader(f.buffer,
                                                 f.offset - r.offset,
                                                 chunkSizeDontCare)],
             store, gets \o << f.digest >>, r.offset)

ConcatenatingChunkReaderRead(r, store) ==
    ConcatenatingChunkReaderReadFrom(r, store, << >>, -1)

\* readNextChunk that does not remember the error of the stream.
readNextChunkForgetful(r, store) ==
    IF Len(r.lastChunk) > 0
    THEN ReadResult(r.lastChunk, NoError, << >>, [r EXCEPT !.lastChunk = << >>])
    ELSE LET u == ChunkReaderRead(r.r, store)
         IN  ReadResult(u.chunk, u.err, u.gets,
                        [r EXCEPT !.r = u.r, !.lastErr = u.err])

\* readNextChunk: r.lastErr is assigned when the Read of the wrapped reader
\* returns; a Read that panics or does not end leaves it as it was.
readNextChunk(r, store) ==
    IF Len(r.lastChunk) > 0
    THEN ReadResult(r.lastChunk, NoError, << >>, [r EXCEPT !.lastChunk = << >>])
    ELSE IF r.lastErr # NoError
    THEN ReadResult(<< >>, r.lastErr, << >>, r)
    ELSE LET u == ChunkReaderRead(r.r, store)
         IN  IF u.err.code \in { "PANIC", "DIVERGES" }
             THEN ReadResult(<< >>, u.err, u.gets, [r EXCEPT !.r = u.r])
             ELSE ReadResult(u.chunk, u.err, u.gets,
                             [r EXCEPT !.r = u.r, !.lastErr = u.err])

\* The slow case of readChunkWithMinimumSize: the loop that concatenates.
RECURSIVE readChunkWithMinimumSizeLoop(_, _, _, _)
readChunkWithMinimumSizeLoop(r, store, fullChunk, gets) ==
    LET n == readNextChunk(r, store)
    IN  IF n.err = EOF /\ Len(fullChunk) > 0
        THEN ReadResult(fullChunk, NoError, gets \o n.gets, n.r)
        ELSE IF n.err # NoError
        THEN ReadResult(<< >>, n.err, gets \o n.gets, n.r)
        ELSE IF Len(fullChunk \o n.chunk) >= r.minimumChunkSizeBytes
        THEN ReadResult(fullChunk \o n.chunk, NoError, gets \o n.gets, n.r)
        ELSE readChunkWithMinimumSizeLoop(n.r, store, fullChunk \o n.chunk,
                                          gets \o n.gets)

\* readChunkWithMinimumSize that returns whatever chunk comes next.
readChunkWithMinimumSizeFast(r, store) == readNextChunk(r, store)

readChunkWithMinimumSize(r, store) ==
    LET n == readNextChunk(r, store)
    IN  IF n.err # NoError
        THEN ReadResult(<< >>, n.err, n.gets, n.r)
        ELSE IF Len(n.chunk) >= r.minimumChunkSizeBytes
        THEN n
        ELSE readChunkWithMinimumSizeLoop(n.r, store, n.chunk, n.gets)

\* Read that cuts a chunk that is too long and forgets the rest.
NormalizingChunkReaderReadTruncating(r, store) ==
    LET c == readChunkWithMinimumSize(r, store)
    IN  IF c.err # NoError
        THEN ReadResult(<< >>, c.err, c.gets, c.r)
        ELSE IF Len(c.chunk) > r.maximumChunkSizeBytes
        THEN ReadResult(SubSeq(c.chunk, 1, r.maximumChunkSizeBytes),
                        NoError, c.gets, c.r)
        ELSE c

\* Read that returns chunks as long as they come.
NormalizingChunkReaderReadUnsplit(r, store) ==
    LET c == readChunkWithMinimumSize(r, store)
    IN  IF c.err # NoError
        THEN ReadResult(<< >>, c.err, c.gets, c.r)
        ELSE c

NormalizingChunkReaderRead(r, store) ==
    LET c == readChunkWithMinimumSize(r, store)
    IN  IF c.err # NoError
        THEN ReadResult(<< >>, c.err, c.gets, c.r)
        ELSE IF Len(c.chunk) > r.maximumChunkSizeBytes
        THEN ReadResult(SubSeq(c.chunk, 1, r.maximumChunkSizeBytes),
                        NoError, c.gets,
                        [c.r EXCEPT !.lastChunk =
                             SubSeq(c.chunk, r.maximumChunkSizeBytes + 1,
                                    Len(c.chunk))])
        ELSE c

\* ChunkReader.Read, dispatched on the dynamic type of the reader.
ChunkReaderRead(r, store) ==
    CASE r.kind = "source" -> SourceChunkReaderRead(r)
      [] r.kind = "concatenating" -> ConcatenatingChunkReaderRead(r, store)
      [] r.kind = "normalizing" -> NormalizingChunkReaderRead(r, store)
      [] r.kind = "nil" -> ReadResult(<< >>, NilDereference, << >>, r)

\* ChunkReader.Close: every wrapper closes the reader it wraps, and the
\* concatenating reader then sets it to nil.  Close yields the reader
\* afterwards, or the panic of a call on a nil reader.
ChunkReaderClose(r) ==
    CASE r.kind = "source" -> [r EXCEPT !.closes = @ + 1]
      [] r.kind = "nil" -> NilDereference
      [] r.kind = "concatenating" ->
             IF "kind" \notin DOMAIN ChunkReaderClose(r.r) THEN NilDereference
             ELSE [r EXCEPT !.r = NilChunkReader]
      [] OTHER ->
             IF "kind" \notin DOMAIN ChunkReaderClose(r.r) THEN NilDereference
             ELSE [r EXCEPT !.r = ChunkReaderClose(@)]

\* The reader at the bottom of a stack of wrappers.
RECURSIVE SourceOf(_)
SourceOf(r) == IF r.kind \in { "source", "nil" } THEN r ELSE SourceOf(r.r)

\* casConcatenatingBuffer.ToChunkReader(off, chunkPolicy).
CASConcatenatingBufferToChunkReader(d, fetcher, off, chunkPolicy) ==
    IF validateReaderOffset(GetSizeBytes(d), off) # NoError
    THEN newErrorChunkReader(validateReaderOffset(GetSizeBytes(d), off))
    ELSE newNormalizingChunkReader(
             newConcatenatingChunkReader(fetcher, GetSizeBytes(d), off),
             chunkPolicy)

(***************************************************************************)
(* The decomposing store and its environment.                              *)
(***************************************************************************)
\* The most Puts and the most Gets a behaviour issues.
MaxPuts == 1

MaxGets == 1

\* The size of the chunks a streaming input buffer hands out.
InputChunkSizeBytes == 1000

\* The bytes of a blob of n bytes.
BlobOfSize(n) == [i \in 1..n |-> (i - 1) % 251]

InstanceName == << "e", "x", "a", "m", "p", "l", "e" >>

\* The block sizes, manifest size limits and blob sizes the store is run
\* with: blobs of one block, of one block and a byte, of two blocks and of
\* two blocks and a byte; block sizes of one, two and three chunks and of a
\* fraction of a chunk.
Configurations ==
    { [blockSizeBytes |-> k, maximumManifestSizeBytes |-> 225,
       sizeBytes |-> s, hash |-> "B3Z"] :
          k \in { 64 }, s \in { 64, 65, 128, 129 } }
    \cup { [blockSizeBytes |-> 2048, maximumManifestSizeBytes |-> 225,
            sizeBytes |-> s, hash |-> "B3Z"] : s \in { 2048, 2049, 4096 } }
    \cup { [blockSizeBytes |-> 1024, maximumManifestSizeBytes |-> 225,
            sizeBytes |-> s, hash |-> "B3Z"] : s \in { 1025 } }
    \cup { [blockSizeBytes |-> 3072, maximumManifestSizeBytes |-> 225,
            sizeBytes |-> s, hash |-> "B3Z"] : s \in { 4096 } }
    \cup { [blockSizeBytes |-> 64, maximumManifestSizeBytes |-> 161,
            sizeBytes |-> 129, hash |-> "B3Z"],
           [blockSizeBytes |-> 2048, maximumManifestSizeBytes |-> 161,
            sizeBytes |-> 4097, hash |-> "B3Z"] }
    \cup { [blockSizeBytes |-> k, maximumManifestSizeBytes |-> 225,
            sizeBytes |-> s, hash |-> h] :
               k \in { 64 }, s \in { 5, 161 }, h \in { "MD5", "B3ZM" } }

\* The digest a client names a blob of sizeBytes bytes by, from the tree
\* hash sum of the blob in hexadecimal.  The store never computes the hash
\* of a digest that is not B3Z: it is 64 or 32 characters of the tree hash.
DigestWithHash(hash, sizeBytes, sum) ==
    CASE hash = "B3Z" ->
             MustNewDigest(InstanceName, << "B", "3", "Z", ":" >> \o sum,
                           sizeBytes)
      [] hash = "B3ZM" ->
             MustNewDigest(InstanceName, << "B", "3", "Z", "M", ":" >> \o sum,
                           sizeBytes)
      [] hash = "MD5" ->
             MustNewDigest(InstanceName, SubSeq(sum, 1, 2 * md5Size),
                           sizeBytes)

\* The tree hash of data in hexadecimal.
B3ZHashString(data) ==
    EncodeToString(BlobHasherSum(
        BlobHasherWrite(newBLAKE3ZCCBlobHasher(32), data), << >>))

DigestOfBlob(hash, data) == DigestWithHash(hash, Len(data), B3ZHashString(data))

\* Cuts data into chunks of n bytes, the last one shorter.
RECURSIVE SplitIntoChunks(_, _)
SplitIntoChunks(data, n) ==
    IF Len(data) = 0 THEN << >>
    ELSE IF Len(data) <= n THEN << data >>
    ELSE << SubSeq(data, 1, n) >> \o SplitIntoChunks(SubSeq(data, n + 1, Len(data)), n)

\* The buffers a client hands to Put: the blob in memory, the blob as a
\* stream of chunks, and a stream that fails after its first chunk.
InputBuffers(data) ==
    { NewValidatedBufferFromByteSlice(data),
      [sizeBytes |-> Len(data),
       chunks |-> SplitIntoChunks(data, InputChunkSizeBytes),
       err |-> EOF],
      [sizeBytes |-> Len(data),
       chunks |-> SubSeq(SplitIntoChunks(data, InputChunkSizeBytes), 1, 1),
       err |-> StatusErrorf("Internal", "Read failure", << >>)] }

\* fm holds the locals of FindMissing; cb holds a concatenating buffer and
\* the readers opened on it; eh holds an error handling chunk reader and
\* its handler; nr holds a normalizing chunk reader; dg holds the arguments
\* and results of the functions of package digest; mf holds a manifest with
\* its parser and a manifest hasher.
VARIABLES ba, blob, digest, store, pc, put, get, ops, fm, cb, eh, nr, dg, mf,
          b3, sz, cas, au

vars == << ba, blob, digest, store, pc, put, get, ops, fm, cb, eh, nr, dg, mf,
           b3, sz, cas, au >>

NewDecomposingBlobAccess(blockSizeBytes, maximumManifestSizeBytes) ==
    [blockSizeBytes |-> blockSizeBytes,
     maximumManifestSizeBytes |-> maximumManifestSizeBytes]

\* The locals of Put and of the consumer of Get before either has run.
NoPut ==
    [manifestDigest |-> BadDigest, manifestParser |-> NilManifestParser,
     r |-> newErrorChunkReader(EOF), manifest |-> << >>, offset |-> 0,
     block |-> << >>, blockDigest |-> BadDigest]

NoGet == [manifest |-> << >>, r |-> newErrorChunkReader(EOF), reads |-> 0]

\* A call of the base store: what was asked and what it answered.
BaseCall(op, d, b, err) == [op |-> op, digest |-> d, buffer |-> b, err |-> err]

BaseGetCall(s, d) ==
    BaseCall("Get", d, BaseGet(s, d),
             IF BaseGet(s, d).err = EOF THEN NoError ELSE BaseGet(s, d).err)

\* An operation of the decomposing store: the buffer it was given (Put) or
\* returned (Get), whether it has returned (Put) or has been consumed (Get),
\* its error, the data consumed, and the calls it made to the base store.
Operation(op, b, done, err, data, calls) ==
    [op |-> op, b |-> b, done |-> done, err |-> err, data |-> data,
     calls |-> calls]

Finish(err) ==
    [ops EXCEPT ![Len(ops)] = [@ EXCEPT !.done = TRUE, !.err = err]]

AddCalls(o, calls) == [o EXCEPT ![Len(o)].calls = @ \o calls]

CountOps(op) == Cardinality({ i \in DOMAIN ops : ops[i].op = op })

Init ==
    \E c \in Configurations :
        /\ ba = NewDecomposingBlobAccess(c.blockSizeBytes,
                                         c.maximumManifestSizeBytes)
        /\ blob = BlobOfSize(c.sizeBytes)
        /\ digest = DigestOfBlob(c.hash, BlobOfSize(c.sizeBytes))
        /\ store = { }
        /\ pc = "idle"
        /\ put = NoPut
        /\ get = NoGet
        /\ ops = << >>
        /\ fm = << >>
        /\ cb = << >>
        /\ eh = << >>
        /\ nr = << >>
        /\ b3 = << >>
        /\ sz = << >>
        /\ cas = << >>
        /\ au = << >>
        /\ dg = << >>
        /\ mf = << >>

\* Put with the operands of the manifest size test swapped.
ManifestTooBigSwapped(manifestSizeBytes, maximumManifestSizeBytes) ==
    maximumManifestSizeBytes > manifestSizeBytes

\* Put that counts blocks where it should count bytes.
AdvanceOffsetByOne(offset, block) == offset + 1

\* Put that drops the error of the manifest Put.
PutManifestResultDropped(err) == NoError

\* Get that reads the manifest without the bound on its size.
GetManifestUnbounded(s, manifestDigest, maximumManifestSizeBytes) ==
    BufferToByteSlice(BaseGet(s, manifestDigest), maximumInt)

\* Put: the test of the manifest size against the configured maximum.
ManifestTooBig(manifestSizeBytes, maximumManifestSizeBytes) ==
    manifestSizeBytes > maximumManifestSizeBytes

\* Put: offset += int64(len(block)).
AdvanceOffset(offset, block) == offset + Len(block)

\* Put: what it returns once the base store has answered the manifest Put.
PutManifestResult(err) ==
    IF err # NoError THEN StatusWrap(err, "Failed to store manifest")
    ELSE NoError

\* Get: the manifest, read from the base store into a byte slice.
GetManifest(s, manifestDigest, maximumManifestSizeBytes) ==
    BufferToByteSlice(BaseGet(s, manifestDigest), maximumManifestSizeBytes)

\* Put, up to the loop: a digest that is not decomposable goes to the base
\* store as it is; a manifest that would be too big fails the call, and
\* the deferred Close runs.
PutBegin ==
    /\ pc = "idle"
    /\ CountOps("Put") < MaxPuts
    /\ \E b \in InputBuffers(blob) :
        LET m == ToManifest(digest, ba.blockSizeBytes)
            r == BufferToChunkReader(b, 0, ChunkSizeExactly(ba.blockSizeBytes))
            manifestSizeBytes == GetSizeBytes(m.manifestDigest)
        IN  IF m.ok
            THEN IF ManifestTooBig(manifestSizeBytes, ba.maximumManifestSizeBytes)
                 THEN /\ ops' = Append(ops, Operation("Put", b, TRUE,
                                 StatusErrorf("InvalidArgument",
                                     "Buffer requires a manifest that is %d bytes in size, while a maximum of %d bytes is permitted",
                                     << FormatInt(manifestSizeBytes),
                                        FormatInt(ba.maximumManifestSizeBytes) >>),
                                 << >>, << >>))
                      /\ put' = [NoPut EXCEPT !.manifestDigest = m.manifestDigest,
                                              !.manifestParser = m.manifestParser,
                                              !.r = ChunkReaderClose(r)]
                      /\ pc' = "idle"
                      /\ UNCHANGED store
                 ELSE /\ ops' = Append(ops, Operation("Put", b, FALSE, NoError,
                                                      << >>, << >>))
                      /\ put' = [NoPut EXCEPT !.manifestDigest = m.manifestDigest,
                                              !.manifestParser = m.manifestParser,
                                              !.r = r]
                      /\ pc' = "putRead"
                      /\ UNCHANGED store
            ELSE \E outcome \in BasePutOutcomes :
                      /\ ops' = Append(ops, Operation("Put", b, TRUE,
                                 BasePutError(outcome, b), << >>,
                                 << BaseCall("Put", digest, b,
                                             BasePutError(outcome, b)) >>))
                      /\ store' = BasePutStore(store, digest, outcome, b)
                      /\ put' = NoPut
                      /\ pc' = "idle"
    /\ UNCHANGED << ba, blob, digest, get, fm, cb, eh, nr, dg, mf, b3, sz, cas, au >>

\* Put, the head of the loop: r.Read() and AppendBlockDigest.
PutRead ==
    /\ pc = "putRead"
    /\ \E u \in { ChunkReaderRead(put.r, store) } :
        IF u.err = EOF
        THEN /\ put' = [put EXCEPT !.r = u.r]
             /\ pc' = "putManifest"
             /\ UNCHANGED ops
        ELSE IF u.err # NoError
        THEN /\ put' = [put EXCEPT !.r = ChunkReaderClose(u.r)]
             /\ ops' = Finish(u.err)
             /\ pc' = "idle"
        ELSE \E a \in { AppendBlockDigest(put.manifestParser, put.manifest,
                                          u.chunk) } :
                /\ put' = [put EXCEPT !.r = u.r, !.block = u.chunk,
                                      !.manifest = a.manifest,
                                      !.blockDigest = a.digest]
                /\ pc' = "putBlock"
                /\ UNCHANGED ops
    /\ UNCHANGED << ba, blob, digest, store, get, fm, cb, eh, nr, dg, mf, b3, sz, cas, au >>

\* Put, the rest of the loop: the block goes to the base store.
PutBlock ==
    /\ pc = "putBlock"
    /\ \E outcome \in BasePutOutcomes :
        LET b == NewValidatedBufferFromByteSlice(put.block)
            err == BasePutError(outcome, b)
            called == AddCalls(ops, << BaseCall("Put", put.blockDigest, b, err) >>)
        IN  /\ store' = BasePutStore(store, put.blockDigest, outcome, b)
            /\ IF err # NoError
               THEN /\ ops' = [called EXCEPT ![Len(ops)] =
                                 [@ EXCEPT !.done = TRUE,
                                           !.err = StatusWrapf(err,
                                               "Failed to store block at offset %d with digest %s",
                                               << FormatInt(put.offset),
                                                  put.blockDigest >>)]]
                    /\ put' = [put EXCEPT !.r = ChunkReaderClose(@)]
                    /\ pc' = "idle"
               ELSE /\ ops' = called
                    /\ put' = [put EXCEPT !.offset = AdvanceOffset(@, put.block)]
                    /\ pc' = "putRead"
    /\ UNCHANGED << ba, blob, digest, get, fm, cb, eh, nr, dg, mf, b3, sz, cas, au >>

\* Put, after the loop: the manifest goes to the base store.
PutManifest ==
    /\ pc = "putManifest"
    /\ \E outcome \in BasePutOutcomes :
        LET b == NewValidatedBufferFromByteSlice(put.manifest)
            err == BasePutError(outcome, b)
            called == AddCalls(ops, << BaseCall("Put", put.manifestDigest, b, err) >>)
        IN  /\ store' = BasePutStore(store, put.manifestDigest, outcome, b)
            /\ ops' = [called EXCEPT ![Len(ops)] =
                          [@ EXCEPT !.done = TRUE,
                                    !.err = PutManifestResult(err)]]
            /\ put' = [put EXCEPT !.r = ChunkReaderClose(@)]
            /\ pc' = "idle"
    /\ UNCHANGED << ba, blob, digest, get, fm, cb, eh, nr, dg, mf, b3, sz, cas, au >>

\* Get: the manifest is loaded and a concatenating buffer returned, which
\* the caller starts to read from offset 0; a digest that is not
\* decomposable goes to the base store as it is.
GetBegin ==
    /\ pc = "idle"
    /\ CountOps("Get") < MaxGets
    /\ LET m == ToManifest(digest, ba.blockSizeBytes)
           loaded == GetManifest(store, m.manifestDigest,
                                 ba.maximumManifestSizeBytes)
           returned == BufferToByteSlice(BaseGet(store, digest), maximumInt)
       IN  IF m.ok
           THEN IF loaded.err # NoError
                THEN /\ ops' = Append(ops, Operation("Get",
                                NewBufferFromError(
                                    StatusWrap(loaded.err, "Failed to load manifest")),
                                TRUE,
                                StatusWrap(loaded.err, "Failed to load manifest"),
                                << >>,
                                << BaseGetCall(store, m.manifestDigest) >>))
                     /\ get' = NoGet
                     /\ pc' = "idle"
                ELSE /\ ops' = Append(ops, Operation("Get",
                                NewValidatedBufferFromByteSlice(<< >>),
                                FALSE, NoError, << >>,
                                << BaseGetCall(store, m.manifestDigest) >>))
                     /\ get' = [manifest |-> loaded.data,
                                r |-> CASConcatenatingBufferToChunkReader(
                                          digest,
                                          DecomposingFetcher(m.manifestParser,
                                                             loaded.data),
                                          0, chunkSizeDontCare),
                                reads |-> 0]
                     /\ pc' = "getRead"
           ELSE /\ ops' = Append(ops, Operation("Get", BaseGet(store, digest),
                                 TRUE, returned.err, returned.data,
                                 << BaseGetCall(store, digest) >>))
                /\ get' = NoGet
                /\ pc' = "idle"
    /\ UNCHANGED << ba, blob, digest, store, put, fm, cb, eh, nr, dg, mf, b3, sz, cas, au >>

\* The caller of Get takes one chunk from the reader of the buffer it was
\* given; a panic ends the program.
GetRead ==
    /\ pc = "getRead"
    /\ \E u \in { ChunkReaderRead(get.r, store) } :
        LET called == AddCalls(ops, [i \in 1..Len(u.gets) |->
                                        BaseGetCall(store, u.gets[i])])
        IN  IF u.err = NoError
            THEN /\ ops' = [called EXCEPT ![Len(ops)].data = @ \o u.chunk]
                 /\ get' = [get EXCEPT !.r = u.r, !.reads = @ + 1]
                 /\ pc' = "getRead"
            ELSE /\ ops' = [called EXCEPT ![Len(ops)] =
                              [@ EXCEPT !.done = TRUE,
                                        !.err = IF u.err = EOF THEN NoError
                                                ELSE u.err]]
                 /\ get' = [get EXCEPT !.r = IF u.err.code = "PANIC" THEN u.r
                                             ELSE ChunkReaderClose(u.r),
                                       !.reads = @ + 1]
                 /\ pc' = CASE u.err.code = "PANIC" -> "panic"
                            [] u.err.code = "DIVERGES" -> "diverged"
                            [] OTHER -> "idle"
    /\ UNCHANGED << ba, blob, digest, store, put, fm, cb, eh, nr, dg, mf, b3, sz, cas, au >>

Next ==
    \/ PutBegin
    \/ PutRead
    \/ PutBlock
    \/ PutManifest
    \/ GetBegin
    \/ GetRead

Spec == Init /\ [][Next]_vars

(***************************************************************************)
(* decomposingBlobAccess.FindMissing and its findMissingQueue.  A digest   *)
(* set is a set; Items() lists it in ascending order, which is the order   *)
(* the requested digests are written in.                                   *)
(***************************************************************************)
\* The most digests a FindMissing request of small blobs names.
MaxRequested == 2

\* The number of blocks of the large blob a request may name.
ManyBlocks == 1001

\* The most digests of which the base store reports each one alone.
MaxReportedAlone == 4

\* findMissingQueue.batchSize as FindMissing sets it.
batchSize == 1000

\* The digests requests are made of, in ascending order: an MD5 digest, B3Z
\* digests of one block, of two blocks, of two blocks and one or two bytes
\* (these two share a manifest), of one block and a byte, and the digest of
\* the manifest of the fourth.
FindMissingDigests ==
    LET h1 == EncodeToString([i \in 1..16 |-> 16 + i])
        h2 == EncodeToString([i \in 1..16 |-> 32 + i])
    IN  << MustNewDigest(InstanceName, EncodeToString([i \in 1..16 |-> i]), 5),
           DigestWithHash("B3Z", 2048, h1),
           DigestWithHash("B3Z", 4096, h1),
           DigestWithHash("B3Z", 4097, h1),
           DigestWithHash("B3Z", 4098, h1),
           DigestWithHash("B3Z", 2049, h2),
           DigestWithHash("B3ZM", 225, h1) >>

\* The digest of a blob of ManyBlocks blocks, and that of a blob of two
\* blocks and a byte with the same instance name and hash length.  The
\* manifests the base store holds agree entry by entry, so the first two
\* block digests of the one are the first two of the other.
ManyBlocksDigest ==
    MustNewDigest(<< >>,
                  << "B", "3", "Z", ":" >>
                  \o EncodeToString([i \in 1..14 |-> 48 + i]),
                  ((ManyBlocks - 1) * 2048) + 1)

FewBlocksDigest ==
    MustNewDigest(<< >>,
                  << "B", "3", "Z", ":" >>
                  \o EncodeToString([i \in 1..14 |-> 64 + i]),
                  (2 * 2048) + 1)

\* The requests: up to MaxRequested of these digests, the digest of a blob
\* of ManyBlocks blocks on its own, and that digest with the digest of a
\* blob that shares two block digests with it.
FindMissingRequests ==
    { [k \in DOMAIN pick |-> FindMissingDigests[pick[k]]] :
        pick \in { p \in UNION { [1..n -> DOMAIN FindMissingDigests] :
                                     n \in 0..MaxRequested } :
                       \A k \in 1..(Len(p) - 1) : p[k] < p[k + 1] } }
    \cup { << ManyBlocksDigest >>, << ManyBlocksDigest, FewBlocksDigest >> }

\* The manifest the base store holds under manifestDigest: it has the size
\* the digest states, and entries that differ from one another.
StoredManifest(manifestDigest) ==
    [i \in 1..GetSizeBytes(manifestDigest) |->
        CASE (i - 1) % blake3zccParentNodeSizeBytes = 0 ->
                 ((i - 1) \div blake3zccParentNodeSizeBytes) % 256
          [] (i - 1) % blake3zccParentNodeSizeBytes = 1 ->
                 ((i - 1) \div blake3zccParentNodeSizeBytes) \div 256
          [] OTHER -> 7]

\* BlobAccess.FindMissing of the base store: it fails, or reports none,
\* all or one of the digests it was asked about.
BaseFindMissingOutcomes(asked) ==
    { [missing |-> m, err |-> NoError] :
        m \in { {}, asked }
              \cup { { d } : d \in IF Cardinality(asked) <= MaxReportedAlone
                                   THEN asked
                                   ELSE { CHOOSE d \in asked : TRUE } } }
    \cup { [missing |-> {},
            err |-> StatusErrorf("Internal", "Storage on fire", << >>)] }

\* findMissingQueue.finalize that adds one of the blobs that own a block
\* reported missing, not all of them.
findMissingQueueFinalizeOneOwner(pending, missingComposed, missingBlocks) ==
    missingComposed
    \cup { CHOOSE blobDigest \in pending[d] : TRUE : d \in missingBlocks }

\* findMissingQueue.finalize, once the base store has answered: the blobs
\* that own a block reported missing join missingComposed.
findMissingQueueFinalize(pending, missingComposed, missingBlocks) ==
    missingComposed \cup UNION { pending[d] : d \in missingBlocks }

\* A store constructed, and a request made up; no local of FindMissing is
\* set yet.  derived collects every block digest the loop obtains, with
\* the blob it was obtained for.  A call of FindMissing is recorded with
\* the digests it names: those of the request for the first call, the
\* pending block digests, each with the blobs it was added for, for the
\* others.
InitFindMissing ==
    \E digests \in FindMissingRequests :
        /\ ba = NewDecomposingBlobAccess(2048, 2 * 1024 * 1024)
        /\ blob = << >>
        /\ digest = BadDigest
        /\ store = { }
        /\ pc = "idle"
        /\ put = NoPut
        /\ get = NoGet
        /\ ops = << >>
        /\ cb = << >>
        /\ eh = << >>
        /\ nr = << >>
        /\ b3 = << >>
        /\ sz = << >>
        /\ cas = << >>
        /\ au = << >>
        /\ dg = << >>
        /\ mf = << >>
        /\ fm = [digests |-> digests,
                 summariesToCheck |-> << >>,
                 missingInitially |-> { },
                 missingComposed |-> { },
                 pending |-> << >>,
                 manifestDigest |-> BadDigest,
                 blobToCheck |-> 0,
                 currentOffset |-> 0,
                 derived |-> << >>,
                 calls |-> << >>,
                 missing |-> { },
                 err |-> NoError]

\* FindMissing, up to the loop over the manifests: the first call of the
\* base store, with every composed digest replaced by that of its manifest.
FindMissingBegin ==
    /\ pc = "idle"
    /\ LET composed == { i \in DOMAIN fm.digests :
                             ToManifest(fm.digests[i], ba.blockSizeBytes).ok }
           manifestDigests ==
               { ToManifest(fm.digests[i], ba.blockSizeBytes).manifestDigest :
                     i \in composed }
           summariesToCheck ==
               [m \in manifestDigests |->
                   LET own == SelectSeq(fm.digests,
                                  LAMBDA d :
                                      /\ ToManifest(d, ba.blockSizeBytes).ok
                                      /\ ToManifest(d, ba.blockSizeBytes).manifestDigest = m)
                   IN  [k \in DOMAIN own |->
                           [blobDigest |-> own[k],
                            manifestParser |->
                                ToManifest(own[k], ba.blockSizeBytes).manifestParser]]]
           initialDigests ==
               manifestDigests
               \cup { fm.digests[i] : i \in DOMAIN fm.digests \ composed }
       IN  \E answer \in BaseFindMissingOutcomes(initialDigests) :
               LET call == [op |-> "FindMissing",
                            missing |-> answer.missing, err |-> answer.err,
                            pending |-> [d \in initialDigests |-> { }]]
               IN  IF answer.err # NoError
                   THEN /\ fm' = [fm EXCEPT !.calls = Append(@, call),
                                            !.missing = { },
                                            !.err = answer.err]
                        /\ pc' = "done"
                   ELSE /\ fm' = [fm EXCEPT
                               !.calls = Append(@, call),
                               !.missingInitially = answer.missing,
                               !.missingComposed =
                                   UNION { { summariesToCheck[m][k].blobDigest :
                                               k \in DOMAIN summariesToCheck[m] } :
                                           m \in manifestDigests \cap answer.missing },
                               !.summariesToCheck =
                                   [m \in manifestDigests \ answer.missing |->
                                       summariesToCheck[m]]]
                        /\ pc' = "load"
    /\ UNCHANGED << ba, blob, digest, store, put, get, ops, cb, eh, nr, dg, mf, b3, sz, cas, au >>

\* The head of the loop with NotFound treated as any other error of the load.
FindMissingLoadNotFoundFails ==
    /\ pc = "load"
    /\ \E manifestDigest \in DOMAIN fm.summariesToCheck :
       \E b \in { NewValidatedBufferFromByteSlice(StoredManifest(manifestDigest)),
                  NewBufferFromError(
                      StatusErrorf("NotFound", "Object not found", << >>)),
                  NewBufferFromError(
                      StatusErrorf("Internal", "Storage on fire", << >>)) } :
       \E loaded \in { BufferToByteSlice(b, ba.maximumManifestSizeBytes) } :
           LET call == [op |-> "Get", digest |-> manifestDigest,
                        err |-> loaded.err]
           IN  IF loaded.err = NoError
               THEN /\ fm' = [fm EXCEPT !.calls = Append(@, call),
                                        !.manifestDigest = manifestDigest,
                                        !.blobToCheck = 1,
                                        !.currentOffset = 0]
                    /\ pc' = "add"
               ELSE IF FALSE
               THEN /\ fm' = [fm EXCEPT
                           !.calls = Append(@, call),
                           !.missingComposed =
                               @ \cup { fm.summariesToCheck[manifestDigest][k].blobDigest :
                                          k \in DOMAIN fm.summariesToCheck[manifestDigest] },
                           !.summariesToCheck =
                               [m \in DOMAIN @ \ { manifestDigest } |-> @[m]]]
                    /\ pc' = "load"
               ELSE /\ fm' = [fm EXCEPT
                           !.calls = Append(@, call),
                           !.missing = { },
                           !.err = StatusWrapf(loaded.err,
                                               "Failed to load manifest %s",
                                               << manifestDigest >>)]
                    /\ pc' = "done"
    /\ UNCHANGED << ba, blob, digest, store, put, get, ops, cb, eh, nr, dg, mf, b3, sz, cas, au >>

\* FindMissing, the head of the loop over the manifests that are present:
\* the next manifest, in the order Go ranges over the map, is loaded from
\* the base store, which returns it, or NotFound, or another error.  The
\* local manifest is StoredManifest(fm.manifestDigest) from then on.
FindMissingLoad ==
    /\ pc = "load"
    /\ \E manifestDigest \in DOMAIN fm.summariesToCheck :
       \E b \in { NewValidatedBufferFromByteSlice(StoredManifest(manifestDigest)),
                  NewBufferFromError(
                      StatusErrorf("NotFound", "Object not found", << >>)),
                  NewBufferFromError(
                      StatusErrorf("Internal", "Storage on fire", << >>)) } :
       \E loaded \in { BufferToByteSlice(b, ba.maximumManifestSizeBytes) } :
           LET call == [op |-> "Get", digest |-> manifestDigest,
                        err |-> loaded.err]
           IN  IF loaded.err = NoError
               THEN /\ fm' = [fm EXCEPT !.calls = Append(@, call),
                                        !.manifestDigest = manifestDigest,
                                        !.blobToCheck = 1,
                                        !.currentOffset = 0]
                    /\ pc' = "add"
               ELSE IF loaded.err.code = "NotFound"
               THEN /\ fm' = [fm EXCEPT
                           !.calls = Append(@, call),
                           !.missingComposed =
                               @ \cup { fm.summariesToCheck[manifestDigest][k].blobDigest :
                                          k \in DOMAIN fm.summariesToCheck[manifestDigest] },
                           !.summariesToCheck =
                               [m \in DOMAIN @ \ { manifestDigest } |-> @[m]]]
                    /\ pc' = "load"
               ELSE /\ fm' = [fm EXCEPT
                           !.calls = Append(@, call),
                           !.missing = { },
                           !.err = StatusWrapf(loaded.err,
                                               "Failed to load manifest %s",
                                               << manifestDigest >>)]
                    /\ pc' = "done"
    /\ UNCHANGED << ba, blob, digest, store, put, get, ops, cb, eh, nr, dg, mf, b3, sz, cas, au >>

\* The loop over the blocks of a blob, for at most n turns and as far as it
\* gets without a call of the base store: GetBlockDigest, and
\* findMissingQueue.add while fewer than batchSize block digests are
\* pending.  l holds the locals: pending, derived, currentOffset and the
\* panic that ended the loop.
RECURSIVE FindMissingBlocks(_, _, _, _)
FindMissingBlocks(blobToCheck, manifest, l, n) ==
    IF n > 1
    THEN LET half == FindMissingBlocks(blobToCheck, manifest, l, n \div 2)
         IN  << half,
                FindMissingBlocks(blobToCheck, manifest, half,
                                  n - (n \div 2)) >>[2]
    ELSE IF \/ l.panic # ""
            \/ l.currentOffset >= GetSizeBytes(blobToCheck.blobDigest)
    THEN l
    ELSE LET bd == GetBlockDigest(blobToCheck.manifestParser, manifest,
                                  l.currentOffset)
         IN  IF bd.panic # "" THEN [l EXCEPT !.panic = bd.panic]
             ELSE IF Cardinality(DOMAIN l.pending) >= batchSize THEN l
             ELSE [pending |->
                       (bd.digest :>
                            ((IF bd.digest \in DOMAIN l.pending
                              THEN l.pending[bd.digest] ELSE { })
                             \cup { blobToCheck.blobDigest }))
                       @@ l.pending,
                   derived |->
                       (blobToCheck.blobDigest :>
                            ((IF blobToCheck.blobDigest \in DOMAIN l.derived
                              THEN l.derived[blobToCheck.blobDigest] ELSE { })
                             \cup { bd.digest }))
                       @@ l.derived,
                   currentOffset |-> bd.offset + GetSizeBytes(bd.digest),
                   panic |-> ""]

\* FindMissing, the loop over the blocks of a blob of the manifest loaded,
\* from one call of the base store to the next.  When batchSize block
\* digests are pending, the turn that follows obtains its block digest and
\* then sends the pending ones to the base store
\* (findMissingQueue.finalize) before it adds its own.
FindMissingAdd ==
    /\ pc = "add"
    /\ \E blobToCheck \in { fm.summariesToCheck[fm.manifestDigest][fm.blobToCheck] } :
       \E manifest \in { StoredManifest(fm.manifestDigest) } :
       \E full \in { Cardinality(DOMAIN fm.pending) >= batchSize } :
       \E answer \in IF /\ full
                        /\ GetBlockDigest(blobToCheck.manifestParser,
                                          manifest,
                                          fm.currentOffset).panic = ""
                     THEN BaseFindMissingOutcomes(DOMAIN fm.pending)
                     ELSE { [missing |-> { }, err |-> NoError] } :
       \E calls \in { IF full /\ GetBlockDigest(blobToCheck.manifestParser,
                                               manifest,
                                               fm.currentOffset).panic = ""
                      THEN Append(fm.calls,
                               [op |-> "FindMissing",
                                missing |-> answer.missing,
                                err |-> answer.err,
                                pending |-> fm.pending])
                      ELSE fm.calls } :
           IF answer.err # NoError
           THEN /\ fm' = [fm EXCEPT !.calls = calls,
                                    !.missing = { },
                                    !.err = answer.err]
                /\ pc' = "done"
           ELSE \E l \in { FindMissingBlocks(
                               blobToCheck, manifest,
                               [pending |-> IF calls # fm.calls THEN << >>
                                            ELSE fm.pending,
                                derived |-> fm.derived,
                                currentOffset |-> fm.currentOffset,
                                panic |-> ""],
                               batchSize) } :
                \E blobDone \in { l.currentOffset
                                      >= GetSizeBytes(blobToCheck.blobDigest) } :
                \E manifestDone \in
                       { /\ blobDone
                         /\ fm.blobToCheck
                                = Len(fm.summariesToCheck[fm.manifestDigest]) } :
                    /\ fm' = [fm EXCEPT
                           !.calls = calls,
                           !.missingComposed =
                               findMissingQueueFinalize(fm.pending, @,
                                                        answer.missing),
                           !.pending = l.pending,
                           !.derived = l.derived,
                           !.err = IF l.panic # "" THEN Panic(l.panic) ELSE @,
                           !.currentOffset =
                               IF blobDone THEN 0 ELSE l.currentOffset,
                           !.blobToCheck = IF blobDone THEN @ + 1 ELSE @,
                           !.summariesToCheck =
                               IF manifestDone
                               THEN [m \in DOMAIN @ \ { fm.manifestDigest } |->
                                        @[m]]
                               ELSE @]
                    /\ pc' = IF l.panic # "" THEN "panic"
                             ELSE IF manifestDone THEN "load" ELSE "add"
    /\ UNCHANGED << ba, blob, digest, store, put, get, ops, cb, eh, nr, dg, mf, b3, sz, cas, au >>

\* The end of FindMissing without the filter on what the base store reported
\* at first.
FindMissingFinishUnfiltered ==
    /\ pc = "load"
    /\ DOMAIN fm.summariesToCheck = { }
    /\ \E answer \in BaseFindMissingOutcomes(DOMAIN fm.pending) :
        LET call == [op |-> "FindMissing",
                     missing |-> answer.missing, err |-> answer.err,
                     pending |-> fm.pending]
            missingComposed ==
                findMissingQueueFinalize(fm.pending, fm.missingComposed,
                                         answer.missing)
        IN  IF answer.err # NoError
            THEN fm' = [fm EXCEPT !.calls = Append(@, call),
                                  !.missing = { },
                                  !.err = answer.err]
            ELSE fm' = [fm EXCEPT
                     !.calls = Append(@, call),
                     !.missingComposed = missingComposed,
                     !.missing =
                         fm.missingInitially
                         \cup missingComposed]
    /\ pc' = "done"
    /\ UNCHANGED << ba, blob, digest, store, put, get, ops, cb, eh, nr, dg, mf, b3, sz, cas, au >>

\* FindMissing, after the loop: the last findMissingQueue.finalize, and the
\* result without the manifest digests the caller did not request.
FindMissingFinish ==
    /\ pc = "load"
    /\ DOMAIN fm.summariesToCheck = { }
    /\ \E answer \in BaseFindMissingOutcomes(DOMAIN fm.pending) :
        LET call == [op |-> "FindMissing",
                     missing |-> answer.missing, err |-> answer.err,
                     pending |-> fm.pending]
            missingComposed ==
                findMissingQueueFinalize(fm.pending, fm.missingComposed,
                                         answer.missing)
        IN  IF answer.err # NoError
            THEN fm' = [fm EXCEPT !.calls = Append(@, call),
                                  !.missing = { },
                                  !.err = answer.err]
            ELSE fm' = [fm EXCEPT
                     !.calls = Append(@, call),
                     !.missingComposed = missingComposed,
                     !.missing =
                         (fm.missingInitially
                              \cap { fm.digests[i] : i \in DOMAIN fm.digests })
                         \cup missingComposed]
    /\ pc' = "done"
    /\ UNCHANGED << ba, blob, digest, store, put, get, ops, cb, eh, nr, dg, mf, b3, sz, cas, au >>

NextFindMissing ==
    \/ FindMissingBegin
    \/ FindMissingLoad
    \/ FindMissingAdd
    \/ FindMissingFinish

SpecFindMissing == InitFindMissing /\ [][NextFindMissing]_vars

(***************************************************************************)
(* The concatenating buffer on its own: one buffer over a mocked fetcher,  *)
(* read with ReadAt, cloned, and read through chunk readers and sequential *)
(* readers.  blob is the content the fetcher tiles and digest the digest   *)
(* of the buffer; cb holds the fetcher, the clones, the last ReadAt and    *)
(* the readers opened.                                                     *)
(***************************************************************************)
\* The largest size of the content of a concatenating buffer.
MaxSizeBytes == 5

\* The content: 'A', 'B', 'C', ...
ConcatenatedContent(sizeBytes) == [i \in 1..sizeBytes |-> 64 + i]

\* The buffers the fetcher returns for a content: they are two bytes and
\* one byte wide in turn, as "He", "l", "lo" in the tests, the last one cut
\* where the content ends.
TilesOf(content) ==
    LET offsetOf(k) == (3 * ((k - 1) \div 2)) + (2 * ((k - 1) % 2))
        widthOf(k) == IF k % 2 = 1 THEN 2 ELSE 1
    IN  [k \in 1..Cardinality({ j \in 1..Len(content) :
                                  offsetOf(j) < Len(content) }) |->
            [offset |-> offsetOf(k),
             data |-> SubSeq(content, offsetOf(k) + 1,
                             Min(offsetOf(k) + widthOf(k), Len(content)))]]

\* Buffer.ReadAt(p, off) of a buffer backed by a stream, p being n bytes
\* long: the bytes copied and the error.
BufferReadAt(b, n, off) ==
    IF Len(b.chunks) = 0 /\ b.err # EOF
    THEN [data |-> << >>, err |-> b.err]
    ELSE IF off < 0
    THEN [data |-> << >>,
          err |-> StatusErrorf("InvalidArgument", "Negative read offset: %d",
                               << FormatInt(off) >>)]
    ELSE LET data == SubSeq(JoinChunks(b.chunks), off + 1,
                            Min(off + n, b.sizeBytes))
         IN  [data |-> data,
              err |-> IF Len(data) < n THEN EOF ELSE NoError]

\* The loop of casConcatenatingBuffer.ReadAt.  p is the slice of the caller
\* as a whole, nTotal the number of bytes of it that are written, fetched
\* the offsets the fetcher was called with.  A buffer that yields no byte
\* and no error makes the loop fetch it forever.
RECURSIVE CASConcatenatingBufferReadAtLoop(_, _, _, _, _, _)
CASConcatenatingBufferReadAtLoop(d, fetcher, p, off, nTotal, fetched) ==
    IF off >= GetSizeBytes(d)
    THEN [n |-> nTotal, err |-> EOF, p |-> p, fetched |-> fetched]
    ELSE IF Len(p) - nTotal = 0
    THEN [n |-> nTotal, err |-> NoError, p |-> p, fetched |-> fetched]
    ELSE LET f == CallFetcher(fetcher, { }, off)
             u == BufferReadAt(f.buffer, Len(p) - nTotal, off - f.offset)
             written == [i \in 1..Len(p) |->
                            IF i > nTotal /\ i <= nTotal + Len(u.data)
                            THEN u.data[i - nTotal] ELSE p[i]]
         IN  IF f.panic # ""
             THEN [n |-> nTotal, err |-> Panic(f.panic), p |-> p,
                   fetched |-> Append(fetched, off)]
             ELSE IF u.err # NoError /\ u.err # EOF
             THEN [n |-> nTotal + Len(u.data), err |-> u.err, p |-> written,
                   fetched |-> Append(fetched, off)]
             ELSE IF Len(u.data) = 0
             THEN [n |-> nTotal, err |-> [code |-> "DIVERGES", chain |-> << >>],
                   p |-> p, fetched |-> Append(fetched, off)]
             ELSE CASConcatenatingBufferReadAtLoop(
                      d, fetcher, written, off + Len(u.data),
                      nTotal + Len(u.data), Append(fetched, off))

\* casConcatenatingBuffer.ReadAt without the test of the sign of the offset.
CASConcatenatingBufferReadAtUnchecked(d, fetcher, p, off) ==
    CASConcatenatingBufferReadAtLoop(d, fetcher, p, off, 0, << >>)

\* casConcatenatingBuffer.ReadAt(p, off).
CASConcatenatingBufferReadAt(d, fetcher, p, off) ==
    IF off < 0
    THEN [n |-> 0,
          err |-> StatusErrorf("InvalidArgument", "Negative read offset: %d",
                               << FormatInt(off) >>),
          p |-> p, fetched |-> << >>]
    ELSE CASConcatenatingBufferReadAtLoop(d, fetcher, p, off, 0, << >>)

\* No ReadAt was made yet.
NoReadAt == [off |-> 0, before |-> << >>, n |-> 0, err |-> NoError,
             p |-> << >>, fetched |-> << >>, calls |-> 0]

\* A buffer constructed by NewCASConcatenatingBuffer over a fetcher whose
\* buffers tile a content of up to MaxSizeBytes bytes, as the tests do.
InitConcatenating ==
    \E sizeBytes \in 0..MaxSizeBytes :
        /\ ba = NewDecomposingBlobAccess(0, 0)
        /\ blob = ConcatenatedContent(sizeBytes)
        /\ digest = MustNewDigest(<< "f", "o", "o" >>,
                                  EncodeToString([i \in 1..16 |-> 128 + i]),
                                  sizeBytes)
        /\ store = { }
        /\ pc = "buffer"
        /\ put = NoPut
        /\ get = NoGet
        /\ ops = << >>
        /\ fm = << >>
        /\ cb = [fetcher |-> [tiles |-> TilesOf(ConcatenatedContent(sizeBytes))],
                 clones |-> << >>,
                 readAt |-> NoReadAt,
                 readers |-> << >>,
                 objects |-> << >>]
        /\ eh = << >>
        /\ nr = << >>
        /\ b3 = << >>
        /\ sz = << >>
        /\ cas = << >>
        /\ au = << >>
        /\ dg = << >>
        /\ mf = << >>

\* The handles that are not consumed yet: a call of ReadAt, ToChunkReader or
\* toUnvalidatedReader consumes the buffer it is made on, and so does
\* cloning.
UnreadHandles ==
    IF cb.readAt.calls > 0 THEN { }
    ELSE (IF cb.clones = << >> THEN { 0 } ELSE { 1, 2 }) \ DOMAIN cb.readers

\* The buffer behind a handle.
HandleBuffer(h) ==
    IF h = 0 THEN [digest |-> digest, fetcher |-> cb.fetcher]
    ELSE cb.clones[h]

\* ReadAt on the buffer, with a slice of zeroes of any length up to one more
\* than the content and an offset from one before the content to one after.
ConcatenatingReadAt ==
    /\ pc = "buffer"
    /\ 0 \in UnreadHandles
    /\ \E n \in 0..(GetSizeBytes(digest) + 1),
          off \in (-1)..(GetSizeBytes(digest) + 1) :
       \E u \in { CASConcatenatingBufferReadAt(digest, cb.fetcher,
                                               [i \in 1..n |-> 0], off) } :
           cb' = [cb EXCEPT !.readAt = [off |-> off,
                                        before |-> [i \in 1..n |-> 0],
                                        n |-> u.n, err |-> u.err, p |-> u.p,
                                        fetched |-> u.fetched,
                                        calls |-> 1]]
    /\ UNCHANGED << ba, blob, digest, store, pc, put, get, ops, fm, eh, nr, dg, mf, b3, sz, cas, au >>

\* Read(p) on the io.ReadCloser a buffer backed by a stream returns from
\* ToReader, p being n bytes long: the reader hands out what is left of the
\* stream, and then the error that ends it.
ReaderRead(r, n) ==
    LET left == JoinChunks(r.chunks)
    IN  IF Len(left) = 0
        THEN [data |-> << >>, err |-> r.err,
              r |-> [r EXCEPT !.reads = @ + 1]]
        ELSE [data |-> SubSeq(left, 1, Min(n, Len(left))), err |-> NoError,
              r |-> [r EXCEPT !.chunks = DiscardFromChunks(@, Min(n, Len(left))),
                              !.reads = @ + 1]]

\* Close on such a reader: it counts the call and returns no error.
ReaderClose(r) == [r EXCEPT !.closes = @ + 1]

\* discardFromReader(r, off): off bytes are read from r and dropped; a
\* stream that ends before that gives its error, and there is nothing to
\* read for an off that is not positive.
discardFromReader(r, off) ==
    IF off <= 0 THEN [r |-> r, err |-> NoError]
    ELSE IF Len(JoinChunks(r.chunks)) < off
    THEN [r |-> [r EXCEPT !.chunks = << >>], err |-> r.err]
    ELSE [r |-> [r EXCEPT !.chunks = DiscardFromChunks(@, off)],
          err |-> NoError]

\* newConcatenatingReader(fetcher, sizeBytes, offset).
newConcatenatingReader(fetcher, sizeBytes, offset) ==
    [kind |-> "concatenatingReader",
     fetcher |-> fetcher,
     sizeBytes |-> sizeBytes,
     r |-> newErrorChunkReader(EOF),
     offset |-> offset]

\* The rest of a concatenatingReader.Read that fetches: r.r has been closed
\* and r.offset advanced, and f is what the fetcher returned.  When the
\* fetcher panics the Read returns nothing, and r.r stays the closed
\* reader.
ConcatenatingReaderFetched(r, data, f) ==
    IF f.panic # ""
    THEN [data |-> << >>, err |-> Panic(f.panic), r |-> r,
          fetched |-> << r.offset >>]
    ELSE LET d == discardFromReader(
                      newSourceChunkReader(f.buffer.chunks, f.buffer.err),
                      f.offset - r.offset)
         IN  [data |-> data, err |-> d.err, r |-> [r EXCEPT !.r = d.r],
              fetched |-> << r.offset >>]

\* concatenatingReader.Read that fetches at the end of the object as well.
ConcatenatingReaderReadPastEnd(r, n) ==
    IF r.r.kind = "nil"
    THEN [data |-> << >>, err |-> NilDereference, r |-> r, fetched |-> << >>]
    ELSE LET u == ReaderRead(r.r, n)
             offset == r.offset + Len(u.data)
         IN  IF u.err = EOF /\ offset <= r.sizeBytes
             THEN ConcatenatingReaderFetched(
                      [r EXCEPT !.r = ReaderClose(u.r), !.offset = offset],
                      u.data, CallFetcher(r.fetcher, { }, offset))
             ELSE [data |-> u.data, err |-> u.err,
                   r |-> [r EXCEPT !.r = u.r, !.offset = offset],
                   fetched |-> << >>]

\* concatenatingReader.Read(p), p being n bytes long: the bytes read, the
\* error, the reader afterwards and the offsets the fetcher was called
\* with.  A reader that was closed has no r.r to call.
ConcatenatingReaderRead(r, n) ==
    IF r.r.kind = "nil"
    THEN [data |-> << >>, err |-> NilDereference, r |-> r, fetched |-> << >>]
    ELSE LET u == ReaderRead(r.r, n)
             offset == r.offset + Len(u.data)
         IN  IF u.err = EOF /\ offset < r.sizeBytes
             THEN ConcatenatingReaderFetched(
                      [r EXCEPT !.r = ReaderClose(u.r), !.offset = offset],
                      u.data, CallFetcher(r.fetcher, { }, offset))
             ELSE [data |-> u.data, err |-> u.err,
                   r |-> [r EXCEPT !.r = u.r, !.offset = offset],
                   fetched |-> << >>]

\* concatenatingReader.Close(): the reader afterwards and the error
\* returned, or the panic of a call on the nil reader a Close has left.
ConcatenatingReaderClose(r) ==
    IF r.r.kind = "nil" THEN [r |-> r, err |-> NilDereference]
    ELSE [r |-> [r EXCEPT !.r = NilChunkReader], err |-> NoError]

\* casConcatenatingBuffer.CloneCopy and CloneStream: both return the buffer
\* twice.  The buffer is handle 0 and its clones are handles 1 and 2.
ConcatenatingClone ==
    /\ pc = "buffer"
    /\ 0 \in UnreadHandles
    /\ \E b \in { [digest |-> digest, fetcher |-> cb.fetcher] } :
           cb' = [cb EXCEPT !.clones = << b, b >>]
    /\ UNCHANGED << ba, blob, digest, store, pc, put, get, ops, fm, eh, nr, dg, mf, b3, sz, cas, au >>

\* A reader as the caller holds it: where it was opened, the size of the
\* slices the caller reads with (of the largest chunk it accepts, for a
\* chunk reader), the reference to the reader, the bytes returned, the
\* error of the last Read, the number of Reads and of those that returned
\* an error, the offsets the fetcher was called with, and the number of
\* calls of Close with what the last one returned.
OpenedReader(kind, off, n, ref) ==
    [kind |-> kind, off |-> off, n |-> n, ref |-> ref, out |-> << >>,
     err |-> NoError, reads |-> 0, failed |-> 0, fetched |-> << >>,
     closes |-> 0, closeErr |-> NoError]

\* The reference of every reader is that of the one reader constructed.
SharedReaderRef(objects) == 1

\* The reference of a reader newly constructed: every call of
\* newConcatenatingChunkReader, newConcatenatingReader and of the
\* constructors of the error readers returns an object of its own.
NewReaderRef(objects) == Len(objects) + 1

\* The readers constructed, with r stored under ref.
StoreReader(objects, ref, r) ==
    [i \in 1..(IF ref > Len(objects) THEN ref ELSE Len(objects)) |->
        IF i = ref THEN r ELSE objects[i]]

\* casConcatenatingBuffer.ToChunkReader(off, chunkPolicy) on the buffer or
\* on a clone of it.
ConcatenatingToChunkReader ==
    /\ pc = "buffer"
    /\ \E h \in UnreadHandles,
          off \in (-1)..(GetSizeBytes(digest) + 1),
          chunkPolicy \in { chunkSizeDontCare, ChunkSizeAtMost(2) } :
       \E ref \in { NewReaderRef(cb.objects) } :
           cb' = [cb EXCEPT !.readers =
                      (h :> OpenedReader("chunk", off,
                                         chunkPolicy.maximumSizeBytes, ref))
                      @@ @,
                            !.objects =
                      StoreReader(@, ref,
                                  CASConcatenatingBufferToChunkReader(
                                      HandleBuffer(h).digest,
                                      HandleBuffer(h).fetcher,
                                      off, chunkPolicy))]
    /\ UNCHANGED << ba, blob, digest, store, pc, put, get, ops, fm, eh, nr, dg, mf, b3, sz, cas, au >>

\* casConcatenatingBuffer.toUnvalidatedReader(off).
CASConcatenatingBufferToUnvalidatedReader(d, fetcher, off) ==
    IF validateReaderOffset(GetSizeBytes(d), off) # NoError
    THEN newErrorChunkReader(validateReaderOffset(GetSizeBytes(d), off))
    ELSE newConcatenatingReader(fetcher, GetSizeBytes(d), off)

\* casConcatenatingBuffer.toUnvalidatedReader(off) on the buffer or on a
\* clone of it, for a caller that reads with slices of one byte or of
\* MaxSizeBytes bytes.
ConcatenatingToUnvalidatedReader ==
    /\ pc = "buffer"
    /\ \E h \in UnreadHandles,
          off \in (-1)..(GetSizeBytes(digest) + 1),
          n \in { 1, MaxSizeBytes } :
       \E ref \in { NewReaderRef(cb.objects) } :
           cb' = [cb EXCEPT !.readers =
                      (h :> OpenedReader("sequential", off, n, ref)) @@ @,
                            !.objects =
                      StoreReader(@, ref,
                                  CASConcatenatingBufferToUnvalidatedReader(
                                      HandleBuffer(h).digest,
                                      HandleBuffer(h).fetcher, off))]
    /\ UNCHANGED << ba, blob, digest, store, pc, put, get, ops, fm, eh, nr, dg, mf, b3, sz, cas, au >>

\* The most Reads of a reader that return an error, and the most calls of
\* Close on a reader.
MaxFailedReads == 2

MaxCloses == 1

\* Read on the reader behind a handle, dispatched on what the reader is: a
\* ChunkReader, a concatenatingReader or the reader newErrorReader returned.
ConcatenatingHandleRead(opened, r) ==
    IF r.kind = "concatenatingReader"
    THEN ConcatenatingReaderRead(r, opened.n)
    ELSE IF opened.kind = "chunk"
    THEN LET c == ChunkReaderRead(r, { })
         IN  [data |-> c.chunk, err |-> c.err, r |-> c.r, fetched |-> c.gets]
    ELSE LET e == ReaderRead(r, opened.n)
         IN  [data |-> e.data, err |-> e.err, r |-> e.r, fetched |-> << >>]

\* Close on the reader behind a handle.
ConcatenatingHandleClose(opened, r) ==
    IF r.kind = "concatenatingReader"
    THEN ConcatenatingReaderClose(r)
    ELSE IF opened.kind = "chunk"
    THEN LET c == ChunkReaderClose(r)
         IN  IF "kind" \in DOMAIN c THEN [r |-> c, err |-> NoError]
             ELSE [r |-> r, err |-> c]
    ELSE [r |-> ReaderClose(r), err |-> NoError]

\* Read on a reader, whatever it has returned before and whether or not it
\* was closed.  The readers of the two clones take turns in any order; a
\* Read is taken as a whole, as the caller that makes it sees it.
ConcatenatingRead ==
    /\ pc = "buffer"
    /\ \E h \in DOMAIN cb.readers :
           /\ cb.readers[h].failed < MaxFailedReads
           /\ \E u \in { ConcatenatingHandleRead(
                             cb.readers[h],
                             cb.objects[cb.readers[h].ref]) } :
                  cb' = [cb EXCEPT !.readers[h] =
                             [@ EXCEPT !.out = @ \o u.data,
                                       !.err = u.err,
                                       !.reads = @ + 1,
                                       !.failed =
                                           IF u.err = NoError THEN @
                                           ELSE @ + 1,
                                       !.fetched = @ \o u.fetched],
                                   !.objects[cb.readers[h].ref] = u.r]
    /\ UNCHANGED << ba, blob, digest, store, pc, put, get, ops, fm, eh, nr, dg, mf, b3, sz, cas, au >>

\* Close on a reader, whatever it has returned before.
ConcatenatingClose ==
    /\ pc = "buffer"
    /\ \E h \in DOMAIN cb.readers :
           /\ cb.readers[h].closes < MaxCloses
           /\ \E u \in { ConcatenatingHandleClose(
                             cb.readers[h],
                             cb.objects[cb.readers[h].ref]) } :
                  cb' = [cb EXCEPT !.readers[h] =
                             [@ EXCEPT !.closes = @ + 1,
                                       !.closeErr = u.err],
                                   !.objects[cb.readers[h].ref] = u.r]
    /\ UNCHANGED << ba, blob, digest, store, pc, put, get, ops, fm, eh, nr, dg, mf, b3, sz, cas, au >>

NextConcatenating ==
    \/ ConcatenatingReadAt
    \/ ConcatenatingClone
    \/ ConcatenatingToChunkReader
    \/ ConcatenatingToUnvalidatedReader
    \/ ConcatenatingRead
    \/ ConcatenatingClose

SpecConcatenating == InitConcatenating /\ [][NextConcatenating]_vars

(***************************************************************************)
(* The error handling chunk reader on its own: a reader over a buffer that *)
(* may fail, with an ErrorHandler that answers a failure with a buffer to  *)
(* go on with or with an error.  blob is the content every buffer holds.   *)
(***************************************************************************)
\* The most answers an ErrorHandler has in store, and the most calls of Read.
MaxRetries == 2
MaxReads == 5

\* The buffers the reader and the handler are given: the content in chunks
\* of two bytes and one byte in turn, whole or failing after none, one or
\* two chunks; a buffer that is an error; and a buffer that holds the first
\* two bytes only.
FailingBuffers(content) ==
    LET chunks == [k \in DOMAIN TilesOf(content) |-> TilesOf(content)[k].data]
        failure == StatusErrorf("Internal", "Storage backend on fire", << >>)
    IN  { [sizeBytes |-> Len(content), chunks |-> chunks, err |-> EOF],
          NewBufferFromError(failure),
          NewValidatedBufferFromByteSlice(SubSeq(content, 1, 2)) }
        \cup { [sizeBytes |-> Len(content), chunks |-> SubSeq(chunks, 1, k),
                err |-> failure] : k \in 1..2 }

\* An ErrorHandler that answers the k-th call of OnError with script[k],
\* a buffer or an error, and any further call with the error it was called
\* with, wrapped; it records the errors it was called with and the calls
\* of Done.
NewErrorHandler(script) == [script |-> script, calls |-> << >>, done |-> 0]

\* ErrorHandler.OnError(err): the buffer and the error returned, and the
\* handler afterwards.
OnError(errorHandler, err) ==
    LET k == Len(errorHandler.calls) + 1
        after == [errorHandler EXCEPT !.calls = Append(@, err)]
    IN  IF k > Len(errorHandler.script)
        THEN [b |-> NewBufferFromError(StatusWrap(err, "Giving up")),
              err |-> StatusWrap(err, "Giving up"), errorHandler |-> after]
        ELSE IF "code" \in DOMAIN errorHandler.script[k]
        THEN [b |-> NewBufferFromError(errorHandler.script[k]),
              err |-> errorHandler.script[k], errorHandler |-> after]
        ELSE [b |-> errorHandler.script[k], err |-> NoError,
              errorHandler |-> after]

\* newErrorHandlingChunkReader(b, errorHandler, off, chunkPolicy).  opened
\* lists the offset and the policy each underlying reader was opened with,
\* retired the underlying readers that were replaced, as Read left them.
newErrorHandlingChunkReader(b, errorHandler, off, chunkPolicy) ==
    [kind |-> "errorHandling",
     r |-> BufferToChunkReader(b, off, chunkPolicy),
     errorHandler |-> errorHandler,
     off |-> off,
     chunkPolicy |-> chunkPolicy,
     opened |-> << [off |-> off, chunkPolicy |-> chunkPolicy] >>,
     retired |-> << >>]

\* errorHandlingChunkReader.Read: the chunk and the error returned, the
\* errors the underlying readers returned on the way, and the reader
\* afterwards.
RECURSIVE ErrorHandlingChunkReaderReadFrom(_, _)
ErrorHandlingChunkReaderReadFrom(r, originalErrs) ==
    LET u == ChunkReaderRead(r.r, { })
    IN  IF u.err = NoError
        THEN [chunk |-> u.chunk, err |-> NoError, originalErrs |-> originalErrs,
              r |-> [r EXCEPT !.r = u.r, !.off = @ + Len(u.chunk)]]
        ELSE IF u.err = EOF
        THEN [chunk |-> << >>, err |-> EOF,
              originalErrs |-> Append(originalErrs, EOF),
              r |-> [r EXCEPT !.r = u.r]]
        ELSE LET h == OnError(r.errorHandler, u.err)
             IN  IF h.err # NoError
                 THEN [chunk |-> << >>, err |-> h.err,
                       originalErrs |-> Append(originalErrs, u.err),
                       r |-> [r EXCEPT !.r = u.r,
                                       !.errorHandler = h.errorHandler]]
                 ELSE ErrorHandlingChunkReaderReadFrom(
                          [r EXCEPT
                               !.r = BufferToChunkReader(h.b, r.off,
                                                         r.chunkPolicy),
                               !.errorHandler = h.errorHandler,
                               !.opened = Append(@, [off |-> r.off,
                                                     chunkPolicy |-> r.chunkPolicy]),
                               !.retired = Append(@, ChunkReaderClose(u.r))],
                          Append(originalErrs, u.err))

\* Read that has forgotten how many bytes it has returned.
ErrorHandlingChunkReaderReadRewound(r) ==
    ErrorHandlingChunkReaderReadFrom([r EXCEPT !.off = 0], << >>)

\* Read that hands on what the underlying reader returns.
ErrorHandlingChunkReaderReadUnhandled(r) ==
    LET u == ChunkReaderRead(r.r, { })
    IN  [chunk |-> u.chunk, err |-> u.err,
         originalErrs |-> IF u.err = NoError THEN << >> ELSE << u.err >>,
         r |-> [r EXCEPT !.r = u.r, !.off = @ + Len(u.chunk)]]

ErrorHandlingChunkReaderRead(r) ==
    ErrorHandlingChunkReaderReadFrom(r, << >>)

\* Close that leaves the handler alone.
ErrorHandlingChunkReaderCloseOnly(r) == [r EXCEPT !.r = ChunkReaderClose(@)]

\* errorHandlingChunkReader.Close.
ErrorHandlingChunkReaderClose(r) ==
    [r EXCEPT !.errorHandler = [@ EXCEPT !.done = @ + 1],
              !.r = ChunkReaderClose(@)]

\* A reader constructed over one of the buffers, at an offset within the
\* content, with a handler that has up to MaxRetries answers in store.  In
\* eh, off is the offset the reader was constructed with, out the chunks
\* and errs the errors Read has returned, originalErrs the errors the
\* underlying readers have returned.
InitErrorHandling ==
    \E b \in FailingBuffers(ConcatenatedContent(MaxSizeBytes)),
       n \in 0..MaxRetries,
       off \in 0..MaxSizeBytes,
       chunkPolicy \in { chunkSizeDontCare, ChunkSizeExactly(2) } :
    \E script \in [1..n -> FailingBuffers(ConcatenatedContent(MaxSizeBytes))
                           \cup { StatusErrorf("Unavailable",
                                               "No backends left", << >>) }] :
        /\ ba = NewDecomposingBlobAccess(0, 0)
        /\ blob = ConcatenatedContent(MaxSizeBytes)
        /\ digest = BadDigest
        /\ store = { }
        /\ pc = "open"
        /\ put = NoPut
        /\ get = NoGet
        /\ ops = << >>
        /\ fm = << >>
        /\ cb = << >>
        /\ nr = << >>
        /\ b3 = << >>
        /\ sz = << >>
        /\ cas = << >>
        /\ au = << >>
        /\ dg = << >>
        /\ mf = << >>
        /\ eh = [r |-> newErrorHandlingChunkReader(b, NewErrorHandler(script),
                                                   off, chunkPolicy),
                 off |-> off,
                 chunkPolicy |-> chunkPolicy,
                 out |-> << >>,
                 errs |-> << >>,
                 originalErrs |-> << >>]

\* Read on the reader, up to MaxReads times and whatever Read has returned
\* before.
ErrorHandlingRead ==
    /\ pc = "open"
    /\ Len(eh.out) + Len(eh.errs) < MaxReads
    /\ \E u \in { ErrorHandlingChunkReaderRead(eh.r) } :
           eh' = [eh EXCEPT !.r = u.r,
                            !.out = IF u.err = NoError THEN Append(@, u.chunk)
                                    ELSE @,
                            !.errs = IF u.err = NoError THEN @
                                     ELSE Append(@, u.err),
                            !.originalErrs = @ \o u.originalErrs]
    /\ UNCHANGED << ba, blob, digest, store, pc, put, get, ops, fm, cb, nr, dg, mf, b3, sz, cas, au >>

\* Close on the reader, after any number of Reads.
ErrorHandlingClose ==
    /\ pc = "open"
    /\ eh' = [eh EXCEPT !.r = ErrorHandlingChunkReaderClose(@)]
    /\ pc' = "closed"
    /\ UNCHANGED << ba, blob, digest, store, put, get, ops, fm, cb, nr, dg, mf, b3, sz, cas, au >>

NextErrorHandling ==
    \/ ErrorHandlingRead
    \/ ErrorHandlingClose

SpecErrorHandling == InitErrorHandling /\ [][NextErrorHandling]_vars

(***************************************************************************)
(* The normalizing chunk reader over any stream.  The state nr holds the   *)
(* reader, the chunk policy it was made with, the chunks and the error the *)
(* underlying reader hands out, what Read has returned so far, and of      *)
(* every Read the remainder it found and the number of Reads it made of    *)
(* the underlying reader.                                                  *)
(***************************************************************************)
\* Bounds: the chunks of the underlying stream, their sizes, and the sizes
\* the chunk policies name.
MaxChunks == 3
MaxChunkSizeBytes == 4
MaxPolicySizeBytes == 2

\* The streams: chunks of the given sizes that hold the bytes 1, 2, 3, ...
\* in order.
RECURSIVE ChunksOfSizes(_, _)
ChunksOfSizes(sizes, first) ==
    IF Len(sizes) = 0 THEN << >>
    ELSE << [i \in 1..Head(sizes) |-> first + i - 1] >>
         \o ChunksOfSizes(Tail(sizes), first + Head(sizes))

ChunkPolicies ==
    { chunkSizeDontCare }
    \cup { ChunkSizeAtMost(k) : k \in 1..MaxPolicySizeBytes }
    \cup { ChunkSizeExactly(k) : k \in 1..MaxPolicySizeBytes }

InitNormalizing ==
    \E n \in 0..MaxChunks, chunkPolicy \in ChunkPolicies,
       err \in { EOF, StatusErrorf("Internal", "Storage backend on fire",
                                   << >>) } :
    \E sizes \in [1..n -> 0..MaxChunkSizeBytes] :
        /\ ba = NewDecomposingBlobAccess(0, 0)
        /\ blob = JoinChunks(ChunksOfSizes(sizes, 1))
        /\ digest = BadDigest
        /\ store = { }
        /\ pc = "open"
        /\ put = NoPut
        /\ get = NoGet
        /\ ops = << >>
        /\ fm = << >>
        /\ cb = << >>
        /\ eh = << >>
        /\ b3 = << >>
        /\ sz = << >>
        /\ cas = << >>
        /\ au = << >>
        /\ dg = << >>
        /\ mf = << >>
        /\ nr = [r |-> newNormalizingChunkReader(
                           newSourceChunkReader(ChunksOfSizes(sizes, 1), err),
                           chunkPolicy),
                 chunkPolicy |-> chunkPolicy,
                 chunks |-> ChunksOfSizes(sizes, 1),
                 err |-> err,
                 out |-> << >>,
                 errs |-> << >>,
                 reads |-> << >>]

\* Read on the reader, until it has returned an error twice.
NormalizingRead ==
    /\ pc = "open"
    /\ Len(nr.errs) < 2
    /\ \E u \in { ChunkReaderRead(nr.r, { }) } :
           nr' = [nr EXCEPT !.r = u.r,
                            !.out = IF u.err = NoError THEN Append(@, u.chunk)
                                    ELSE @,
                            !.errs = IF u.err = NoError THEN @
                                     ELSE Append(@, u.err),
                            !.reads = Append(@,
                                [lastChunk |-> nr.r.lastChunk,
                                 lastErr |-> nr.r.lastErr,
                                 chunk |-> u.chunk,
                                 err |-> u.err,
                                 underlying |-> SourceOf(u.r).reads
                                                - SourceOf(nr.r).reads])]
    /\ UNCHANGED << ba, blob, digest, store, pc, put, get, ops, fm, cb, eh, dg, mf, b3, sz, cas, au >>

\* Close on the reader, which is Close of the reader it wraps.
NormalizingClose ==
    /\ pc = "open"
    /\ nr' = [nr EXCEPT !.r = ChunkReaderClose(@)]
    /\ pc' = "closed"
    /\ UNCHANGED << ba, blob, digest, store, put, get, ops, fm, cb, eh, dg, mf, b3, sz, cas, au >>

NextNormalizing ==
    \/ NormalizingRead
    \/ NormalizingClose

SpecNormalizing == InitNormalizing /\ [][NextNormalizing]_vars

(***************************************************************************)
(* The manifest parser on its own: AppendBlockDigest on the blocks of a    *)
(* blob in order, then GetBlockDigest at offsets of the blob.  The state   *)
(* mf holds the parser, the manifest, what AppendBlockDigest has returned  *)
(* for every block, and the offset and the result of GetBlockDigest.       *)
(***************************************************************************)
\* Bound: the blocks of a blob.
MaxBlocks == 3

\* Blobs of 2 to MaxBlocks blocks, the last block one byte or whole; block
\* sizes of a part of a chunk and of two chunks; hashes of 16 and 32 bytes.
ManifestConfigurations ==
    UNION { { [blockSizeBytes |-> k, sizeBytes |-> s, hashSizeBytes |-> h] :
                  s \in { ((n - 1) * k) + 1 : n \in 2..MaxBlocks }
                        \cup { n * k : n \in 2..MaxBlocks },
                  h \in { 16, 32 } } :
            k \in { 64, 2048 } }

InitManifestParser ==
    \E c \in ManifestConfigurations :
        /\ ba = NewDecomposingBlobAccess(c.blockSizeBytes, 0)
        /\ blob = BlobOfSize(c.sizeBytes)
        /\ digest = BadDigest
        /\ store = { }
        /\ pc = "append"
        /\ put = NoPut
        /\ get = NoGet
        /\ ops = << >>
        /\ fm = << >>
        /\ cb = << >>
        /\ eh = << >>
        /\ nr = << >>
        /\ b3 = << >>
        /\ sz = << >>
        /\ cas = << >>
        /\ au = << >>
        /\ dg = << >>
        /\ mf = [mp |-> newBLAKE3ZCCManifestParser(InstanceName, c.sizeBytes,
                                                   c.blockSizeBytes,
                                                   c.hashSizeBytes),
                 manifest |-> << >>,
                 appended |-> << >>,
                 got |-> << >>]

\* AppendBlockDigest on the next block of the blob.
ManifestAppend ==
    /\ pc = "append"
    /\ Len(mf.appended) * mf.mp.blockSizeBytes < Len(blob)
    /\ \E a \in { AppendBlockDigest(
                      mf.mp, mf.manifest,
                      SubSeq(blob,
                             (Len(mf.appended) * mf.mp.blockSizeBytes) + 1,
                             Min((Len(mf.appended) + 1) * mf.mp.blockSizeBytes,
                                 Len(blob)))) } :
           mf' = [mf EXCEPT !.manifest = a.manifest,
                            !.appended = Append(@, [panic |-> a.panic,
                                                    digest |-> a.digest])]
    /\ UNCHANGED << ba, blob, digest, store, pc, put, get, ops, fm, cb, eh, nr, dg, b3, sz, cas, au >>

\* GetBlockDigest on the manifest of all blocks, at the first, the second
\* or the last offset of a block.
ManifestGet ==
    /\ pc = "append"
    /\ Len(mf.appended) * mf.mp.blockSizeBytes >= Len(blob)
    /\ \E i \in 0..(Len(mf.appended) - 1) :
       \E off \in { i * mf.mp.blockSizeBytes, (i * mf.mp.blockSizeBytes) + 1,
                    Min((i + 1) * mf.mp.blockSizeBytes, Len(blob)) - 1 } :
       \E bd \in { GetBlockDigest(mf.mp, mf.manifest, off) } :
           /\ off < Len(blob)
           /\ mf' = [mf EXCEPT !.got = << [off |-> off, panic |-> bd.panic,
                                           digest |-> bd.digest,
                                           offset |-> bd.offset] >>]
    /\ pc' = "got"
    /\ UNCHANGED << ba, blob, digest, store, put, get, ops, fm, cb, eh, nr, dg, b3, sz, cas, au >>

NextManifestParser ==
    \/ ManifestAppend
    \/ ManifestGet

SpecManifestParser == InitManifestParser /\ [][NextManifestParser]_vars

(***************************************************************************)
(* The manifest hasher on its own: a stream written in any partition, then *)
(* Sum.  The state mf holds the hasher, the number of bytes written, and   *)
(* the result of Sum.                                                      *)
(***************************************************************************)
\* Bound: the length of the stream.
MaxStreamBytes == 225

\* The first n bytes of the stream.
Stream(n) == [i \in 1..n |-> ((7 * i) + 3) % 256]

\* The lengths of the slices Write is called with.
WriteSizes == { 0, 1, 33, 64, 97 }

\* The most calls of Reset on one hasher.
MaxResets == 1

InitManifestHasher ==
    /\ ba = NewDecomposingBlobAccess(0, 0)
    /\ blob = Stream(MaxStreamBytes)
    /\ digest = BadDigest
    /\ store = { }
    /\ pc = "write"
    /\ put = NoPut
    /\ get = NoGet
    /\ ops = << >>
    /\ fm = << >>
    /\ cb = << >>
    /\ eh = << >>
    /\ nr = << >>
    /\ b3 = << >>
    /\ sz = << >>
    /\ cas = << >>
    /\ au = << >>
    /\ dg = << >>
    /\ mf = [h |-> newBLAKE3ZCCManifestHasher(32),
             written |-> 0,
             writes |-> 0,
             resets |-> 0,
             sum |-> [panic |-> "", sum |-> << >>]]

\* Write of the next n bytes of the stream: written counts the bytes
\* written since the hasher was made or last reset.
ManifestHasherWriteNext ==
    /\ pc = "write"
    /\ \E n \in WriteSizes :
           /\ mf.written + n <= MaxStreamBytes
           /\ mf' = [mf EXCEPT !.h = ManifestHasherWrite(
                                         @, SubSeq(blob, mf.written + 1,
                                                   mf.written + n)),
                               !.written = @ + n,
                               !.writes = Min(@ + 1, 2)]
    /\ UNCHANGED << ba, blob, digest, store, pc, put, get, ops, fm, cb, eh, nr, dg, b3, sz, cas, au >>

\* Sum(nil).
ManifestHasherSumNow ==
    /\ pc = "write"
    /\ mf' = [mf EXCEPT !.sum = ManifestHasherSum(mf.h, << >>)]
    /\ pc' = "summed"
    /\ UNCHANGED << ba, blob, digest, store, put, get, ops, fm, cb, eh, nr, dg, b3, sz, cas, au >>

\* Reset(): the stream starts over.
ManifestHasherResetNow ==
    /\ pc = "write"
    /\ mf.resets < MaxResets
    /\ mf' = [mf EXCEPT !.h = ManifestHasherReset(@),
                        !.written = 0,
                        !.writes = 0,
                        !.resets = @ + 1]
    /\ UNCHANGED << ba, blob, digest, store, pc, put, get, ops, fm, cb, eh, nr, dg, b3, sz, cas, au >>

NextManifestHasher ==
    \/ ManifestHasherWriteNext
    \/ ManifestHasherSumNow
    \/ ManifestHasherResetNow

SpecManifestHasher == InitManifestHasher /\ [][NextManifestHasher]_vars

(***************************************************************************)
(* Package digest on its own: NewDigest on any arguments, the accessors of *)
(* the digest it returns, and a Generator made from that digest.  The      *)
(* state dg holds the arguments, what NewDigest returned, what the         *)
(* accessors returned, the Generator, the number of Writes and of bytes    *)
(* written, and what Sum returned.                                         *)
(***************************************************************************)
\* Bounds: the largest size a digest is constructed with, and the calls of
\* Write on a Generator.
MaxDigestSizeBytes == 100
MaxWrites == 2

\* n hexadecimal characters.
Hex(n) == [i \in 1..n |-> HexDigits[((i - 1) % 16) + 1]]

\* The hashes NewDigest is called with: of every length newDigestOther
\* accepts, of other lengths, with a character that is not hexadecimal, in
\* upper case, and the same after the prefixes B3Z: and B3ZM:.
HashStrings ==
    { Hex(n) : n \in OtherHashLengths \cup { 0, 31, 33 } }
    \cup { << "g" >> \o Hex(31), << "A" >> \o Hex(39), Hex(63) \o << "-" >> }
    \cup { << "B", "3", "Z", ":" >> \o h :
               h \in { Hex(64), Hex(32), Hex(2), Hex(0),
                       << "g" >> \o Hex(63), Hex(31) \o << "-" >> } }
    \cup { << "B", "3", "Z", "M", ":" >> \o h :
               h \in { Hex(64), Hex(2), << "g" >> \o Hex(63) } }

\* The instance names: none, one with dashes, and one that is long and
\* ends in -1-b.
InstanceNames ==
    { << >>, << "a", "-", "b" >>,
      [i \in 1..24 |-> "a"] \o << "-", "1", "-", "b" >> }

KeyWithoutInstance == 0

KeyWithInstance == 1

\* Digest.GetKey(format).
GetKey(d, format) ==
    CASE format = KeyWithoutInstance ->
             [panic |-> IF unpack(d).panic THEN "index out of range" ELSE "",
              key |-> SubSeq(d, 1, unpack(d).sizeBytesEnd)]
      [] format = KeyWithInstance -> [panic |-> "", key |-> d]
      [] OTHER -> [panic |-> "Invalid digest key format", key |-> << >>]

(***************************************************************************)
(* crypto/md5, crypto/sha1, crypto/sha256 and crypto/sha512 of the         *)
(* standard library: the hashes Digest.NewHasher returns for digests that  *)
(* are not BLAKE3ZCC.  A uint64 is four 16-bit limbs, the lowest first.    *)
(***************************************************************************)
\* The & operator on two 4-bit values, tabulated.
AndNibble ==
    [a \in 0..15 |-> [b \in 0..15 |-> (a + b - XorNibble[a][b]) \div 2]]

And16(a, b) ==
    AndNibble[a % 16][b % 16]
    + 16 * AndNibble[(a \div 16) % 16][(b \div 16) % 16]
    + 256 * AndNibble[(a \div 256) % 16][(b \div 256) % 16]
    + 4096 * AndNibble[a \div 4096][b \div 4096]

\* The operators &, | and ^ (with one operand: not) on uint32.
And32(a, b) == << And16(a[1], b[1]), And16(a[2], b[2]) >>

Or32(a, b) ==
    << a[1] + b[1] - And16(a[1], b[1]), a[2] + b[2] - And16(a[2], b[2]) >>

Not32(a) == << 65535 - a[1], 65535 - a[2] >>

\* bits.RotateLeft32(x, n), 0 < n < 32.
RotateLeft32(x, n) ==
    IF n < 16 THEN RotateRight32(<< x[2], x[1] >>, 16 - n)
    ELSE RotateRight32(x, 32 - n)

\* x >> n on uint32, 0 < n < 16.
ShiftRight32(x, n) ==
    << (x[1] \div Pow2(n)) + (x[2] % Pow2(n)) * Pow2(16 - n),
       x[2] \div Pow2(n) >>

\* The operators ^, &, ^ with one operand, and + on uint64.
Xor64(a, b) ==
    << Xor16(a[1], b[1]), Xor16(a[2], b[2]), Xor16(a[3], b[3]),
       Xor16(a[4], b[4]) >>

And64(a, b) ==
    << And16(a[1], b[1]), And16(a[2], b[2]), And16(a[3], b[3]),
       And16(a[4], b[4]) >>

Not64(a) == << 65535 - a[1], 65535 - a[2], 65535 - a[3], 65535 - a[4] >>

Add64(a, b) ==
    LET s1 == a[1] + b[1]
        s2 == a[2] + b[2] + (s1 \div H16)
        s3 == a[3] + b[3] + (s2 \div H16)
        s4 == a[4] + b[4] + (s3 \div H16)
    IN  << s1 % H16, s2 % H16, s3 % H16, s4 % H16 >>

\* x >> n on uint64, 0 < n < 16.
ShiftRight64(x, n) ==
    << (x[1] \div Pow2(n)) + (x[2] % Pow2(n)) * Pow2(16 - n),
       (x[2] \div Pow2(n)) + (x[3] % Pow2(n)) * Pow2(16 - n),
       (x[3] \div Pow2(n)) + (x[4] % Pow2(n)) * Pow2(16 - n),
       x[4] \div Pow2(n) >>

\* The limbs of x rotated right by q limbs.
RotateLimbs64(x, q) ==
    << x[(q % 4) + 1], x[((q + 1) % 4) + 1], x[((q + 2) % 4) + 1],
       x[((q + 3) % 4) + 1] >>

\* bits.RotateLeft64(x, -n), 0 < n < 64: by whole limbs, then by bits.
RotateRight64Bits(y, r) ==
    IF r = 0 THEN y
    ELSE << (y[1] \div Pow2(r)) + (y[2] % Pow2(r)) * Pow2(16 - r),
            (y[2] \div Pow2(r)) + (y[3] % Pow2(r)) * Pow2(16 - r),
            (y[3] \div Pow2(r)) + (y[4] % Pow2(r)) * Pow2(16 - r),
            (y[4] \div Pow2(r)) + (y[1] % Pow2(r)) * Pow2(16 - r) >>

RotateRight64(x, n) == RotateRight64Bits(RotateLimbs64(x, n \div 16), n % 16)

\* binary.BigEndian.Uint32(b[off:]) and Uint64(b[off:]), off a Go index.
Uint32BE(b, off) ==
    << b[off + 4] + 256 * b[off + 3], b[off + 2] + 256 * b[off + 1] >>

Uint64BE(b, off) ==
    << b[off + 8] + 256 * b[off + 7], b[off + 6] + 256 * b[off + 5],
       b[off + 4] + 256 * b[off + 3], b[off + 2] + 256 * b[off + 1] >>

\* binary.BigEndian.PutUint32 and PutUint64: the bytes of a word.
PutUint32BE(w) ==
    << w[2] \div 256, w[2] % 256, w[1] \div 256, w[1] % 256 >>

PutUint64BE(w) ==
    << w[4] \div 256, w[4] % 256, w[3] \div 256, w[3] % 256,
       w[2] \div 256, w[2] % 256, w[1] \div 256, w[1] % 256 >>

\* What Sum appends to the n bytes written before the length: 0x80 and
\* zeroes up to lengthSize bytes before the end of a block.
HashPadding(n, blockSize, lengthSize) ==
    << 128 >>
    \o [i \in 1..((2 * blockSize - ((n + 1 + lengthSize) % blockSize))
                  % blockSize) |-> 0]

\* The number of bits of n bytes as lengthSize bytes, the lowest last; n is
\* below 2^28.
HashLengthBE(n, lengthSize) ==
    [i \in 1..lengthSize |->
        IF lengthSize - i >= 4 THEN 0
        ELSE ((8 * n) \div Pow2(8 * (lengthSize - i))) % 256]

\* The same, the lowest byte first.
HashLengthLE(n, lengthSize) ==
    [i \in 1..lengthSize |->
        IF i > 4 THEN 0 ELSE ((8 * n) \div Pow2(8 * (i - 1))) % 256]

\* The n words of four bytes at b[off:], the most significant byte first.
RECURSIVE BytesToWordsBE(_, _, _)
BytesToWordsBE(b, off, n) ==
    IF n = 0 THEN << >>
    ELSE IF n = 1 THEN << Uint32BE(b, off) >>
    ELSE BytesToWordsBE(b, off, n \div 2)
         \o BytesToWordsBE(b, off + 4 * (n \div 2), n - (n \div 2))

\* The n words of eight bytes at b[off:], the most significant byte first.
RECURSIVE BytesToWords64BE(_, _, _)
BytesToWords64BE(b, off, n) ==
    IF n = 0 THEN << >>
    ELSE IF n = 1 THEN << Uint64BE(b, off) >>
    ELSE BytesToWords64BE(b, off, n \div 2)
         \o BytesToWords64BE(b, off + 8 * (n \div 2), n - (n \div 2))

\* 0x67452301, 0xefcdab89, 0x98badcfe, 0x10325476.
md5Init ==
    << << 8961, 26437 >>, << 43913, 61389 >>, << 56574, 39098 >>, << 21622, 4146 >> >>

\* The rotations of the 64 steps of md5.
md5Shifts ==
    << 7, 12, 17, 22, 7, 12, 17, 22, 7, 12, 17, 22, 7, 12, 17, 22,
       5, 9, 14, 20, 5, 9, 14, 20, 5, 9, 14, 20, 5, 9, 14, 20,
       4, 11, 16, 23, 4, 11, 16, 23, 4, 11, 16, 23, 4, 11, 16, 23,
       6, 10, 15, 21, 6, 10, 15, 21, 6, 10, 15, 21, 6, 10, 15, 21 >>

\* The constants of the 64 steps of md5: floor(2^32 * abs(sin(i))), i from 1.
md5K ==
    << << 42104, 55146 >>, << 46934, 59591 >>, << 28891, 9248 >>, << 52974, 49597 >>,
       << 4015, 62844 >>, << 50730, 18311 >>, << 17939, 43056 >>, << 38145, 64838 >>,
       << 39128, 27008 >>, << 63407, 35652 >>, << 23473, 65535 >>, << 55230, 35164 >>,
       << 4386, 27536 >>, << 29075, 64920 >>, << 17294, 42617 >>, << 2081, 18868 >>,
       << 9570, 63006 >>, << 45888, 49216 >>, << 23121, 9822 >>, << 51114, 59830 >>,
       << 4189, 54831 >>, << 5203, 580 >>, << 59009, 55457 >>, << 64456, 59347 >>,
       << 52710, 8673 >>, << 2006, 49975 >>, << 3463, 62677 >>, << 5357, 17754 >>,
       << 59653, 43491 >>, << 41976, 64751 >>, << 729, 26479 >>, << 19594, 36138 >>,
       << 14658, 65530 >>, << 63105, 34673 >>, << 24866, 28061 >>, << 14348, 64997 >>,
       << 59972, 42174 >>, << 53161, 19422 >>, << 19296, 63163 >>, << 48240, 48831 >>,
       << 32454, 10395 >>, << 10234, 60065 >>, << 12421, 54511 >>, << 7429, 1160 >>,
       << 53305, 55764 >>, << 39397, 59099 >>, << 31992, 8098 >>, << 22117, 50348 >>,
       << 8772, 62505 >>, << 65431, 17194 >>, << 9127, 43924 >>, << 41017, 64659 >>,
       << 22979, 25947 >>, << 52370, 36620 >>, << 62589, 65519 >>, << 24017, 34180 >>,
       << 32335, 28584 >>, << 59104, 65068 >>, << 17172, 41729 >>, << 4513, 19976 >>,
       << 32386, 63315 >>, << 62005, 48442 >>, << 53947, 10967 >>, << 54161, 60294 >> >>

\* Step i (from 0) of the block function of md5 on the state
\* << a, b, c, d >> and the 16 words m of the block.
md5Step(st, m, i) ==
    LET a == st[1]
        b == st[2]
        c == st[3]
        d == st[4]
        f == CASE i < 16 -> Or32(And32(b, c), And32(Not32(b), d))
               [] i >= 16 /\ i < 32 -> Or32(And32(b, d), And32(c, Not32(d)))
               [] i >= 32 /\ i < 48 -> Xor32(Xor32(b, c), d)
               [] OTHER -> Xor32(c, Or32(b, Not32(d)))
        k == CASE i < 16 -> i
               [] i >= 16 /\ i < 32 -> ((5 * i) + 1) % 16
               [] i >= 32 /\ i < 48 -> ((3 * i) + 5) % 16
               [] OTHER -> (7 * i) % 16
    IN  << d,
           Add32(b, RotateLeft32(Add32(Add32x3(a, f, m[k + 1]), md5K[i + 1]),
                                 md5Shifts[i + 1])),
           b, c >>

\* Steps lo..hi, in eight runs one after the other.
RECURSIVE md5Steps(_, _, _, _)
md5Steps(st, m, lo, hi) ==
    IF lo > hi THEN st
    ELSE IF lo = hi THEN md5Step(st, m, lo)
    ELSE LET n == (hi - lo + 8) \div 8
             s1 == md5Steps(st, m, lo, lo + n - 1)
             s2 == md5Steps(s1, m, lo + n, Min(hi, lo + (2 * n) - 1))
             s3 == md5Steps(s2, m, lo + (2 * n), Min(hi, lo + (3 * n) - 1))
             s4 == md5Steps(s3, m, lo + (3 * n), Min(hi, lo + (4 * n) - 1))
             s5 == md5Steps(s4, m, lo + (4 * n), Min(hi, lo + (5 * n) - 1))
             s6 == md5Steps(s5, m, lo + (5 * n), Min(hi, lo + (6 * n) - 1))
             s7 == md5Steps(s6, m, lo + (6 * n), Min(hi, lo + (7 * n) - 1))
             s8 == md5Steps(s7, m, lo + (7 * n), hi)
         IN  << s1, s2, s3, s4, s5, s6, s7, s8 >>[8]

\* The state after a block: what the steps leave is added to what was.
md5Added(h, st) ==
    << st,
       << Add32(h[1], st[1]), Add32(h[2], st[2]), Add32(h[3], st[3]),
          Add32(h[4], st[4]) >> >>[2]

\* The block function of md5 on the blocks lo..hi (from 0) of p.
RECURSIVE md5Blocks(_, _, _, _)
md5Blocks(h, p, lo, hi) ==
    IF lo > hi THEN h
    ELSE IF lo = hi
    THEN << h, md5Added(h, md5Steps(h, BytesToWords(p, 64 * lo, 16), 0, 63)) >>[2]
    ELSE LET mid == (lo + hi) \div 2
             h1 == md5Blocks(h, p, lo, mid)
         IN  << h1, md5Blocks(h1, p, mid + 1, hi) >>[2]

\* md5: Sum(nil) after Write(data).
md5Sum(data) ==
    LET p == data \o HashPadding(Len(data), 64, 8)
                 \o HashLengthLE(Len(data), 8)
    IN  WordsToBytes(md5Blocks(md5Init, p, 0, (Len(p) \div 64) - 1))

\* 0x67452301, 0xefcdab89, 0x98badcfe, 0x10325476, 0xc3d2e1f0.
sha1Init ==
    << << 8961, 26437 >>, << 43913, 61389 >>, << 56574, 39098 >>,
       << 21622, 4146 >>, << 57840, 50130 >> >>

\* 0x5a827999, 0x6ed9eba1, 0x8f1bbcdc, 0xca62c1d6: one for every 20 rounds.
sha1K ==
    << << 31129, 23170 >>, << 60321, 28377 >>, << 48348, 36635 >>, << 49622, 51810 >> >>

\* The 80 words of the schedule of sha1, from the 16 words of a block:
\* w holds the words before word t.
RECURSIVE sha1Schedule(_, _, _)
sha1Schedule(w, lo, hi) ==
    IF lo > hi THEN w
    ELSE IF lo = hi
    THEN << w,
            Append(w, RotateLeft32(Xor32(Xor32(w[lo - 3], w[lo - 8]),
                                         Xor32(w[lo - 14], w[lo - 16])),
                                   1)) >>[2]
    ELSE LET mid == (lo + hi) \div 2
             w1 == sha1Schedule(w, lo, mid)
         IN  << w1, sha1Schedule(w1, mid + 1, hi) >>[2]

\* Round i (from 0) of the block function of sha1 on the state
\* << a, b, c, d, e >> and the schedule w.
sha1Round(st, w, i) ==
    LET a == st[1]
        b == st[2]
        c == st[3]
        d == st[4]
        e == st[5]
        f == CASE i < 20 -> Or32(And32(b, c), And32(Not32(b), d))
               [] i >= 20 /\ i < 40 -> Xor32(Xor32(b, c), d)
               [] i >= 40 /\ i < 60 ->
                      Or32(And32(Or32(b, c), d), And32(b, c))
               [] OTHER -> Xor32(Xor32(b, c), d)
    IN  << Add32(Add32x3(RotateLeft32(a, 5), f, e),
                 Add32(w[i + 1], sha1K[(i \div 20) + 1])),
           a, RotateLeft32(b, 30), c, d >>

RECURSIVE sha1Rounds(_, _, _, _)
sha1Rounds(st, w, lo, hi) ==
    IF lo > hi THEN st
    ELSE IF lo = hi THEN sha1Round(st, w, lo)
    ELSE LET n == (hi - lo + 8) \div 8
             s1 == sha1Rounds(st, w, lo, lo + n - 1)
             s2 == sha1Rounds(s1, w, lo + n, Min(hi, lo + (2 * n) - 1))
             s3 == sha1Rounds(s2, w, lo + (2 * n), Min(hi, lo + (3 * n) - 1))
             s4 == sha1Rounds(s3, w, lo + (3 * n), Min(hi, lo + (4 * n) - 1))
             s5 == sha1Rounds(s4, w, lo + (4 * n), Min(hi, lo + (5 * n) - 1))
             s6 == sha1Rounds(s5, w, lo + (5 * n), Min(hi, lo + (6 * n) - 1))
             s7 == sha1Rounds(s6, w, lo + (6 * n), Min(hi, lo + (7 * n) - 1))
             s8 == sha1Rounds(s7, w, lo + (7 * n), hi)
         IN  << s1, s2, s3, s4, s5, s6, s7, s8 >>[8]

sha1Added(h, st) ==
    << st,
       << Add32(h[1], st[1]), Add32(h[2], st[2]), Add32(h[3], st[3]),
          Add32(h[4], st[4]), Add32(h[5], st[5]) >> >>[2]

sha1Block(h, w) == << w, sha1Added(h, sha1Rounds(h, w, 0, 79)) >>[2]

\* The block function of sha1 on the blocks lo..hi (from 0) of p.
RECURSIVE sha1Blocks(_, _, _, _)
sha1Blocks(h, p, lo, hi) ==
    IF lo > hi THEN h
    ELSE IF lo = hi
    THEN << h,
            sha1Block(h, sha1Schedule(BytesToWordsBE(p, 64 * lo, 16),
                                      17, 80)) >>[2]
    ELSE LET mid == (lo + hi) \div 2
             h1 == sha1Blocks(h, p, lo, mid)
         IN  << h1, sha1Blocks(h1, p, mid + 1, hi) >>[2]

\* The bytes of words of four bytes, the most significant byte first.
RECURSIVE WordsToBytesBE(_)
WordsToBytesBE(ws) ==
    IF Len(ws) = 0 THEN << >>
    ELSE IF Len(ws) = 1 THEN PutUint32BE(ws[1])
    ELSE WordsToBytesBE(SubSeq(ws, 1, Len(ws) \div 2))
         \o WordsToBytesBE(SubSeq(ws, (Len(ws) \div 2) + 1, Len(ws)))

\* sha1: Sum(nil) after Write(data).
sha1Sum(data) ==
    LET p == data \o HashPadding(Len(data), 64, 8)
                 \o HashLengthBE(Len(data), 8)
    IN  WordsToBytesBE(sha1Blocks(sha1Init, p, 0, (Len(p) \div 64) - 1))

\* The initial state of sha256: the words of iv.
sha256Init == iv

\* The constants of the 64 rounds of sha256.
sha256K ==
    << << 12184, 17034 >>, << 17553, 28983 >>, << 64463, 46528 >>, << 56229, 59829 >>,
       << 49755, 14678 >>, << 4593, 23025 >>, << 33444, 37439 >>, << 24277, 43804 >>,
       << 43672, 55303 >>, << 23297, 4739 >>, << 34238, 9265 >>, << 32195, 21772 >>,
       << 23924, 29374 >>, << 45566, 32990 >>, << 1703, 39900 >>, << 61812, 49563 >>,
       << 27073, 58523 >>, << 18310, 61374 >>, << 40390, 4033 >>, << 41420, 9228 >>,
       << 11375, 11753 >>, << 33962, 19060 >>, << 43484, 23728 >>, << 35034, 30457 >>,
       << 20818, 38974 >>, << 50797, 43057 >>, << 10184, 45059 >>, << 32711, 48985 >>,
       << 3059, 50912 >>, << 37191, 54695 >>, << 25425, 1738 >>, << 10599, 5161 >>,
       << 2693, 10167 >>, << 8504, 11803 >>, << 28156, 19756 >>, << 3347, 21304 >>,
       << 29524, 25866 >>, << 2747, 30314 >>, << 51502, 33218 >>, << 11397, 37490 >>,
       << 59553, 41663 >>, << 26187, 43034 >>, << 35696, 49739 >>, << 20899, 51052 >>,
       << 59417, 53650 >>, << 1572, 54937 >>, << 13701, 62478 >>, << 41072, 4202 >>,
       << 49430, 6564 >>, << 27656, 7735 >>, << 30540, 10056 >>, << 48309, 13488 >>,
       << 3251, 14620 >>, << 43594, 20184 >>, << 51791, 23452 >>, << 28659, 26670 >>,
       << 33518, 29839 >>, << 25455, 30885 >>, << 30740, 33992 >>, << 520, 36039 >>,
       << 65530, 37054 >>, << 27883, 42064 >>, << 41975, 48889 >>, << 30962, 50801 >> >>

\* The 64 words of the schedule of sha256, from the 16 words of a block.
RECURSIVE sha256Schedule(_, _, _)
sha256Schedule(w, lo, hi) ==
    IF lo > hi THEN w
    ELSE IF lo = hi
    THEN << w,
            Append(w,
                Add32(Add32x3(
                          Xor32(Xor32(RotateRight32(<< w[lo - 2][2],
                                                       w[lo - 2][1] >>, 1),
                                      RotateRight32(<< w[lo - 2][2],
                                                       w[lo - 2][1] >>, 3)),
                                ShiftRight32(w[lo - 2], 10)),
                          w[lo - 7],
                          Xor32(Xor32(RotateRight32(w[lo - 15], 7),
                                      RotateRight32(<< w[lo - 15][2],
                                                       w[lo - 15][1] >>, 2)),
                                ShiftRight32(w[lo - 15], 3))),
                      w[lo - 16])) >>[2]
    ELSE LET mid == (lo + hi) \div 2
             w1 == sha256Schedule(w, lo, mid)
         IN  << w1, sha256Schedule(w1, mid + 1, hi) >>[2]

\* Round i (from 0) of the block function of sha256 on the state
\* << a, b, c, d, e, f, g, h >> and the schedule w.
sha256Round(st, w, i) ==
    LET a == st[1]
        e == st[5]
        t1 == Add32(Add32x3(
                        st[8],
                        Xor32(Xor32(RotateRight32(e, 6), RotateRight32(e, 11)),
                              RotateRight32(<< e[2], e[1] >>, 9)),
                        Xor32(And32(e, st[6]), And32(Not32(e), st[7]))),
                    Add32(sha256K[i + 1], w[i + 1]))
        t2 == Add32(Xor32(Xor32(RotateRight32(a, 2), RotateRight32(a, 13)),
                          RotateRight32(<< a[2], a[1] >>, 6)),
                    Xor32(Xor32(And32(a, st[2]), And32(a, st[3])),
                          And32(st[2], st[3])))
    IN  << Add32(t1, t2), a, st[2], st[3], Add32(st[4], t1), e, st[6],
           st[7] >>

RECURSIVE sha256Rounds(_, _, _, _)
sha256Rounds(st, w, lo, hi) ==
    IF lo > hi THEN st
    ELSE IF lo = hi THEN sha256Round(st, w, lo)
    ELSE LET n == (hi - lo + 8) \div 8
             s1 == sha256Rounds(st, w, lo, lo + n - 1)
             s2 == sha256Rounds(s1, w, lo + n, Min(hi, lo + (2 * n) - 1))
             s3 == sha256Rounds(s2, w, lo + (2 * n), Min(hi, lo + (3 * n) - 1))
             s4 == sha256Rounds(s3, w, lo + (3 * n), Min(hi, lo + (4 * n) - 1))
             s5 == sha256Rounds(s4, w, lo + (4 * n), Min(hi, lo + (5 * n) - 1))
             s6 == sha256Rounds(s5, w, lo + (5 * n), Min(hi, lo + (6 * n) - 1))
             s7 == sha256Rounds(s6, w, lo + (6 * n), Min(hi, lo + (7 * n) - 1))
             s8 == sha256Rounds(s7, w, lo + (7 * n), hi)
         IN  << s1, s2, s3, s4, s5, s6, s7, s8 >>[8]

sha256Added(h, st) ==
    << st,
       << Add32(h[1], st[1]), Add32(h[2], st[2]), Add32(h[3], st[3]),
          Add32(h[4], st[4]), Add32(h[5], st[5]), Add32(h[6], st[6]),
          Add32(h[7], st[7]), Add32(h[8], st[8]) >> >>[2]

sha256Block(h, w) == << w, sha256Added(h, sha256Rounds(h, w, 0, 63)) >>[2]

\* The block function of sha256 on the blocks lo..hi (from 0) of p.
RECURSIVE sha256Blocks(_, _, _, _)
sha256Blocks(h, p, lo, hi) ==
    IF lo > hi THEN h
    ELSE IF lo = hi
    THEN << h,
            sha256Block(h, sha256Schedule(BytesToWordsBE(p, 64 * lo, 16),
                                          17, 64)) >>[2]
    ELSE LET mid == (lo + hi) \div 2
             h1 == sha256Blocks(h, p, lo, mid)
         IN  << h1, sha256Blocks(h1, p, mid + 1, hi) >>[2]

\* sha256: Sum(nil) after Write(data).
sha256Sum(data) ==
    LET p == data \o HashPadding(Len(data), 64, 8)
                 \o HashLengthBE(Len(data), 8)
    IN  WordsToBytesBE(sha256Blocks(sha256Init, p, 0, (Len(p) \div 64) - 1))

\* The initial state of sha512.
sha512Init ==
    << << 51464, 62396, 58983, 27145 >>, << 42811, 33994, 44677, 47975 >>,
       << 63531, 65172, 62322, 15470 >>, << 14065, 24349, 62778, 42319 >>,
       << 33489, 44518, 21119, 20750 >>, << 27679, 11070, 26764, 39685 >>,
       << 48491, 64321, 55723, 8067 >>, << 8569, 4990, 52505, 23520 >> >>

\* The initial state of sha512.New384.
sha384Init ==
    << << 40664, 49413, 40285, 52155 >>, << 54535, 13948, 10538, 25242 >>,
       << 56599, 12400, 346, 37209 >>, << 22841, 63246, 60632, 5423 >>,
       << 2865, 65472, 9831, 26419 >>, << 5393, 26712, 19079, 36532 >>,
       << 36775, 25849, 11789, 56076 >>, << 20388, 48890, 18461, 18357 >> >>

\* The constants of the 80 rounds of sha512.
sha512K ==
    << << 44578, 55080, 12184, 17034 >>, << 26061, 9199, 17553, 28983 >>,
       << 15151, 60493, 64463, 46528 >>, << 56252, 33161, 56229, 59829 >>,
       << 46392, 62280, 49755, 14678 >>, << 53273, 46597, 4593, 23025 >>,
       << 20379, 44825, 33444, 37439 >>, << 33048, 55917, 24277, 43804 >>,
       << 578, 41731, 43672, 55303 >>, << 28606, 17776, 23297, 4739 >>,
       << 45708, 20196, 34238, 9265 >>, << 46306, 54783, 32195, 21772 >>,
       << 35183, 62075, 23924, 29374 >>, << 38577, 15126, 45566, 32990 >>,
       << 4661, 9671, 1703, 39900 >>, << 9876, 53097, 61812, 49563 >>,
       << 19154, 40689, 27073, 58523 >>, << 9699, 14415, 18310, 61374 >>,
       << 54709, 35724, 40390, 4033 >>, << 40037, 30636, 41420, 9228 >>,
       << 629, 22827, 11375, 11753 >>, << 58499, 28326, 33962, 19060 >>,
       << 64468, 48449, 43484, 23728 >>, << 21429, 33553, 35034, 30457 >>,
       << 57259, 61030, 20818, 38974 >>, << 12816, 11700, 50797, 43057 >>,
       << 8511, 39163, 10184, 45059 >>, << 3812, 48879, 32711, 48985 >>,
       << 36802, 15784, 3059, 50912 >>, << 42789, 37642, 37191, 54695 >>,
       << 33391, 57347, 25425, 1738 >>, << 28272, 2574, 10599, 5161 >>,
       << 12284, 18130, 2693, 10167 >>, << 51494, 23590, 8504, 11803 >>,
       << 10989, 23236, 28156, 19756 >>, << 46047, 40341, 3347, 21304 >>,
       << 25566, 35759, 29524, 25866 >>, << 45736, 15479, 2747, 30314 >>,
       << 44774, 18413, 51502, 33218 >>, << 13627, 5250, 11397, 37490 >>,
       << 868, 19697, 59553, 41663 >>, << 12289, 48194, 26187, 43034 >>,
       << 38801, 53496, 35696, 49739 >>, << 48688, 1620, 20899, 51052 >>,
       << 21016, 55023, 59417, 53650 >>, << 43280, 21861, 1572, 54937 >>,
       << 8234, 22385, 13701, 62478 >>, << 53688, 12987, 41072, 4202 >>,
       << 53448, 47314, 49430, 6564 >>, << 43859, 20801, 27656, 7735 >>,
       << 60313, 57230, 30540, 10056 >>, << 18600, 57755, 48309, 13488 >>,
       << 23139, 50633, 3251, 14620 >>, << 35531, 58177, 43594, 20184 >>,
       << 58227, 30563, 51791, 23452 >>, << 47267, 54962, 28659, 26670 >>,
       << 45820, 24047, 33518, 29839 >>, << 12128, 17175, 25455, 30885 >>,
       << 43890, 41456, 30740, 33992 >>, << 14828, 6756, 520, 36039 >>,
       << 7720, 9059, 65530, 37054 >>, << 48617, 56962, 27883, 42064 >>,
       << 30997, 45766, 41975, 48889 >>, << 21291, 58226, 30962, 50801 >>,
       << 24988, 59942, 16078, 51751 >>, << 49671, 8640, 47303, 53638 >>,
       << 60190, 52704, 32214, 60122 >>, << 53624, 61038, 20351, 62845 >>,
       << 28602, 29207, 26538, 1776 >>, << 39078, 41672, 32197, 2659 >>,
       << 3502, 48889, 38916, 4415 >>, << 18203, 4892, 2869, 7025 >>,
       << 32132, 8964, 30709, 10459 >>, << 9363, 16583, 43899, 13002 >>,
       << 48828, 5577, 48650, 15518 >>, << 3404, 39952, 26564, 17181 >>,
       << 17078, 52030, 54462, 19653 >>, << 32298, 64613, 10652, 22911 >>,
       << 64236, 15062, 28587, 24523 >>, << 22551, 19015, 6540, 27716 >> >>

\* The 80 words of the schedule of sha512, from the 16 words of a block.
RECURSIVE sha512Schedule(_, _, _)
sha512Schedule(w, lo, hi) ==
    IF lo > hi THEN w
    ELSE IF lo = hi
    THEN << w,
            Append(w,
                Add64(Add64(Xor64(Xor64(RotateRight64(w[lo - 2], 19),
                                        RotateRight64(w[lo - 2], 61)),
                                  ShiftRight64(w[lo - 2], 6)),
                            w[lo - 7]),
                      Add64(Xor64(Xor64(RotateRight64(w[lo - 15], 1),
                                        RotateRight64(w[lo - 15], 8)),
                                  ShiftRight64(w[lo - 15], 7)),
                            w[lo - 16]))) >>[2]
    ELSE LET mid == (lo + hi) \div 2
             w1 == sha512Schedule(w, lo, mid)
         IN  << w1, sha512Schedule(w1, mid + 1, hi) >>[2]

\* Round i (from 0) of the block function of sha512 on the state
\* << a, b, c, d, e, f, g, h >> and the schedule w.
sha512Round(st, w, i) ==
    LET a == st[1]
        e == st[5]
        t1 == Add64(Add64(Add64(st[8],
                                Xor64(Xor64(RotateRight64(e, 14),
                                            RotateRight64(e, 18)),
                                      RotateRight64(e, 41))),
                          Xor64(And64(e, st[6]), And64(Not64(e), st[7]))),
                    Add64(sha512K[i + 1], w[i + 1]))
        t2 == Add64(Xor64(Xor64(RotateRight64(a, 28), RotateRight64(a, 34)),
                          RotateRight64(a, 39)),
                    Xor64(Xor64(And64(a, st[2]), And64(a, st[3])),
                          And64(st[2], st[3])))
    IN  << Add64(t1, t2), a, st[2], st[3], Add64(st[4], t1), e, st[6],
           st[7] >>

RECURSIVE sha512Rounds(_, _, _, _)
sha512Rounds(st, w, lo, hi) ==
    IF lo > hi THEN st
    ELSE IF lo = hi THEN sha512Round(st, w, lo)
    ELSE LET n == (hi - lo + 8) \div 8
             s1 == sha512Rounds(st, w, lo, lo + n - 1)
             s2 == sha512Rounds(s1, w, lo + n, Min(hi, lo + (2 * n) - 1))
             s3 == sha512Rounds(s2, w, lo + (2 * n), Min(hi, lo + (3 * n) - 1))
             s4 == sha512Rounds(s3, w, lo + (3 * n), Min(hi, lo + (4 * n) - 1))
             s5 == sha512Rounds(s4, w, lo + (4 * n), Min(hi, lo + (5 * n) - 1))
             s6 == sha512Rounds(s5, w, lo + (5 * n), Min(hi, lo + (6 * n) - 1))
             s7 == sha512Rounds(s6, w, lo + (6 * n), Min(hi, lo + (7 * n) - 1))
             s8 == sha512Rounds(s7, w, lo + (7 * n), hi)
         IN  << s1, s2, s3, s4, s5, s6, s7, s8 >>[8]

sha512Added(h, st) ==
    << st,
       << Add64(h[1], st[1]), Add64(h[2], st[2]), Add64(h[3], st[3]),
          Add64(h[4], st[4]), Add64(h[5], st[5]), Add64(h[6], st[6]),
          Add64(h[7], st[7]), Add64(h[8], st[8]) >> >>[2]

sha512Block(h, w) == << w, sha512Added(h, sha512Rounds(h, w, 0, 79)) >>[2]

\* The block function of sha512 on the blocks lo..hi (from 0) of p.
RECURSIVE sha512Blocks(_, _, _, _)
sha512Blocks(h, p, lo, hi) ==
    IF lo > hi THEN h
    ELSE IF lo = hi
    THEN << h,
            sha512Block(h, sha512Schedule(BytesToWords64BE(p, 128 * lo, 16),
                                          17, 80)) >>[2]
    ELSE LET mid == (lo + hi) \div 2
             h1 == sha512Blocks(h, p, lo, mid)
         IN  << h1, sha512Blocks(h1, p, mid + 1, hi) >>[2]

\* The bytes of words of eight bytes, the most significant byte first.
RECURSIVE Words64ToBytesBE(_)
Words64ToBytesBE(ws) ==
    IF Len(ws) = 0 THEN << >>
    ELSE IF Len(ws) = 1 THEN PutUint64BE(ws[1])
    ELSE Words64ToBytesBE(SubSeq(ws, 1, Len(ws) \div 2))
         \o Words64ToBytesBE(SubSeq(ws, (Len(ws) \div 2) + 1, Len(ws)))

\* sha512 and sha512.New384, which differ in the initial state and in the
\* number of bytes of the state Sum returns: Sum(nil) after Write(data).
sha512SumFrom(init, size, data) ==
    LET p == data \o HashPadding(Len(data), 128, 16)
                 \o HashLengthBE(Len(data), 16)
    IN  SubSeq(Words64ToBytesBE(sha512Blocks(init, p, 0,
                                             (Len(p) \div 128) - 1)),
               1, size)

sha512Sum(data) == sha512SumFrom(sha512Init, 64, data)

sha384Sum(data) == sha512SumFrom(sha384Init, 48, data)

\* The hash.Hash of the standard library of size bytes (md5, sha1, sha256,
\* sha384, sha512): it keeps what was written.
NewStandardHasher(size) == [size |-> size, data |-> << >>]

\* hash.Hash.Sum(nil) of the hash of the standard library NewHasher chose.
StandardHasherSum(h) ==
    CASE h.size = 16 -> md5Sum(h.data)
      [] h.size = 20 -> sha1Sum(h.data)
      [] h.size = 32 -> sha256Sum(h.data)
      [] h.size = 48 -> sha384Sum(h.data)
      [] h.size = 64 -> sha512Sum(h.data)

\* Digest.NewHasher().
NewHasher(d) ==
    LET hash == GetHashString(d)
    IN  IF unpack(d).panic
        THEN [panic |-> "index out of range", hasher |-> << >>]
        ELSE IF HasPrefix(hash, << "B", "3", "Z", ":" >>)
        THEN [panic |-> "",
              hasher |-> newBLAKE3ZCCBlobHasher((Len(hash) - 4) \div 2)]
        ELSE IF HasPrefix(hash, << "B", "3", "Z", "M", ":" >>)
        THEN [panic |-> "",
              hasher |-> newBLAKE3ZCCManifestHasher((Len(hash) - 5) \div 2)]
        ELSE IF Len(hash) \in OtherHashLengths
        THEN [panic |-> "", hasher |-> NewStandardHasher(Len(hash) \div 2)]
        ELSE [panic |-> "Digest hash is of unknown type", hasher |-> << >>]

\* hash.Hash.Write and hash.Hash.Sum(nil), dispatched on the dynamic type.
HasherWrite(h, p) ==
    IF "p" \in DOMAIN h THEN BlobHasherWrite(h, p)
    ELSE IF "entry" \in DOMAIN h THEN ManifestHasherWrite(h, p)
    ELSE [h EXCEPT !.data = @ \o p]

HasherSum(h) ==
    IF "p" \in DOMAIN h THEN [panic |-> "", sum |-> BlobHasherSum(h, << >>)]
    ELSE IF "entry" \in DOMAIN h THEN ManifestHasherSum(h, << >>)
    ELSE [panic |-> "", sum |-> StandardHasherSum(h)]

\* Digest.NewGenerator().
NewGenerator(d) ==
    [panic |-> NewHasher(d).panic,
     instance |-> GetInstance(d),
     partialHash |-> NewHasher(d).hasher,
     sizeBytes |-> 0]

\* Generator.Write(p).
GeneratorWrite(gen, p) ==
    [gen EXCEPT !.partialHash = HasherWrite(@, p), !.sizeBytes = @ + Len(p)]

\* Generator.Sum().
GeneratorSum(gen) ==
    LET sum == HasherSum(gen.partialHash)
    IN  IF sum.panic # "" THEN [panic |-> sum.panic, digest |-> BadDigest]
        ELSE [panic |-> "",
              digest |-> newDigestUnchecked(gen.instance,
                                            EncodeToString(sum.sum),
                                            gen.sizeBytes)]

NoAccess ==
    [panic |-> "", instance |-> << >>, hashString |-> << >>, sizeBytes |-> 0,
     keyWithInstance |-> << >>, keyWithoutInstance |-> << >>]

InitDigest ==
    \E instance \in InstanceNames, hash \in HashStrings,
       sizeBytes \in { -1, 0, 5, MaxDigestSizeBytes } :
        /\ ba = NewDecomposingBlobAccess(0, 0)
        /\ blob = Stream(MaxWrites * 64)
        /\ digest = BadDigest
        /\ store = { }
        /\ pc = "arguments"
        /\ put = NoPut
        /\ get = NoGet
        /\ ops = << >>
        /\ fm = << >>
        /\ cb = << >>
        /\ eh = << >>
        /\ nr = << >>
        /\ b3 = << >>
        /\ sz = << >>
        /\ cas = << >>
        /\ au = << >>
        /\ mf = << >>
        /\ dg = [instance |-> instance, hash |-> hash, sizeBytes |-> sizeBytes,
                 d |-> BadDigest, err |-> NoError,
                 got |-> NoAccess,
                 generator |-> << >>,
                 writes |-> 0,
                 written |-> 0,
                 sum |-> [panic |-> "", digest |-> BadDigest]]

\* NewDigest(instance, hash, sizeBytes).
DigestNew ==
    /\ pc = "arguments"
    /\ \E n \in { NewDigest(dg.instance, dg.hash, dg.sizeBytes) } :
           /\ dg' = [dg EXCEPT !.d = n.digest, !.err = n.err]
           /\ pc' = IF n.err = NoError THEN "digest" ELSE "rejected"
    /\ UNCHANGED << ba, blob, digest, store, put, get, ops, fm, cb, eh, nr, mf, b3, sz, cas, au >>

\* GetInstance, GetHashString, GetSizeBytes and GetKey of the digest.
DigestAccess ==
    /\ pc = "digest"
    /\ dg' = [dg EXCEPT !.got =
                 [panic |-> IF unpack(dg.d).panic THEN "index out of range"
                            ELSE "",
                  instance |-> GetInstance(dg.d),
                  hashString |-> GetHashString(dg.d),
                  sizeBytes |-> GetSizeBytes(dg.d),
                  keyWithInstance |-> GetKey(dg.d, KeyWithInstance).key,
                  keyWithoutInstance |-> GetKey(dg.d, KeyWithoutInstance).key]]
    /\ pc' = "accessed"
    /\ UNCHANGED << ba, blob, digest, store, put, get, ops, fm, cb, eh, nr, mf, b3, sz, cas, au >>

\* NewGenerator of the digest.
DigestNewGenerator ==
    /\ pc = "digest"
    /\ \E gen \in { NewGenerator(dg.d) } :
           /\ dg' = [dg EXCEPT !.generator = gen]
           /\ pc' = IF gen.panic # "" THEN "panic" ELSE "generator"
    /\ UNCHANGED << ba, blob, digest, store, put, get, ops, fm, cb, eh, nr, mf, b3, sz, cas, au >>

\* Write on the Generator, of nothing, a byte or 64 bytes.
DigestGeneratorWrite ==
    /\ pc = "generator"
    /\ dg.writes < MaxWrites
    /\ \E n \in { 0, 1, 64 } :
           dg' = [dg EXCEPT !.generator =
                                GeneratorWrite(@, SubSeq(blob, @.sizeBytes + 1,
                                                         @.sizeBytes + n)),
                            !.writes = @ + 1,
                            !.written = @ + n]
    /\ UNCHANGED << ba, blob, digest, store, pc, put, get, ops, fm, cb, eh, nr, mf, b3, sz, cas, au >>

\* Sum on the Generator.
DigestGeneratorSum ==
    /\ pc = "generator"
    /\ dg' = [dg EXCEPT !.sum = GeneratorSum(dg.generator)]
    /\ pc' = "summed"
    /\ UNCHANGED << ba, blob, digest, store, put, get, ops, fm, cb, eh, nr, mf, b3, sz, cas, au >>

NextDigest ==
    \/ DigestNew
    \/ DigestAccess
    \/ DigestNewGenerator
    \/ DigestGeneratorWrite
    \/ DigestGeneratorSum

SpecDigest == InitDigest /\ [][NextDigest]_vars

(***************************************************************************)
(* Properties.  What they speak of is stated from the blob, the digest and *)
(* the configuration, not from the operators of the store.                 *)
(***************************************************************************)
\* The digest names a blob the store decomposes.
Decomposable ==
    /\ Len(digest) >= 4
    /\ SubSeq(digest, 1, 4) = << "B", "3", "Z", ":" >>
    /\ Len(blob) > ba.blockSizeBytes

\* The number of blocks of the blob, and the bytes of block j.
BlockCount == (Len(blob) + ba.blockSizeBytes - 1) \div ba.blockSizeBytes

ExpectedBlock(j) ==
    SubSeq(blob, ((j - 1) * ba.blockSizeBytes) + 1,
           Min(j * ba.blockSizeBytes, Len(blob)))

\* The digest of the manifest of the blob, and whether the size it states
\* is within the configured maximum.
ManifestDigestOf == ToManifest(digest, ba.blockSizeBytes).manifestDigest

Fits == GetSizeBytes(ManifestDigestOf) <= ba.maximumManifestSizeBytes

PutOps == { i \in DOMAIN ops : ops[i].op = "Put" }

GetOps == { i \in DOMAIN ops : ops[i].op = "Get" }

\* A Put before operation i has returned success.
PutSucceededBefore(i) ==
    \E j \in 1..(i - 1) :
        ops[j].op = "Put" /\ ops[j].done /\ ops[j].err = NoError

\* err, wrapped with a message that has the given arguments.
Wrapped(err, format, args) ==
    [code |-> err.code,
     chain |-> << [format |-> format, args |-> args] >> \o err.chain]

\* The hash sum of a manifest, as the manifest hasher computes it.
ManifestSum(manifest) ==
    ManifestHasherSum(
        ManifestHasherWrite(newBLAKE3ZCCManifestHasher(32), manifest), << >>)

\* The hexadecimal hash a B3ZM digest carries.
ManifestDigestHash(d) == SubSeq(GetHashString(d), 6, Len(GetHashString(d)))

\* C1: once a Put of a decomposable blob has succeeded, a Get of its digest
\* that is consumed from offset 0 yields the bytes of the blob in order and
\* ends with no error and no panic, whatever the blob size and block size.
C1_RoundTrip ==
    Decomposable =>
        \A i \in GetOps :
            PutSucceededBefore(i) =>
                /\ ops[i].data = SubSeq(blob, 1, Len(ops[i].data))
                /\ ops[i].done =>
                       ops[i].err = NoError /\ ops[i].data = blob

\* C1: a Get after a Put has reproduced a blob of more than one block.
C1_RoundTripReached ==
    /\ Decomposable
    /\ \E i \in GetOps :
           /\ PutSucceededBefore(i)
           /\ ops[i].done
           /\ ops[i].err = NoError
           /\ ops[i].data = blob
           /\ Len(ops[i].calls) = BlockCount + 1

\* C2: the manifest Put has assembled, once all blocks are appended, hashes
\* under the manifest hasher to the hash of the blob, which is the hash the
\* B3ZM digest of ToManifest carries, for every blob and block size.
C2_ManifestHashesToBlobHash ==
    pc = "putManifest" =>
        /\ ManifestSum(put.manifest).panic = ""
        /\ EncodeToString(ManifestSum(put.manifest).sum)
               = ManifestDigestHash(put.manifestDigest)

\* C2: a complete manifest that hashes to the hash of its blob.
C2_ManifestHashReached ==
    /\ pc = "putManifest"
    /\ Len(put.manifest) > blake3zccChunkNodeSizeBytes
    /\ ManifestSum(put.manifest).panic = ""
    /\ EncodeToString(ManifestSum(put.manifest).sum)
           = ManifestDigestHash(put.manifestDigest)
    /\ ManifestDigestHash(put.manifestDigest) = B3ZHashString(blob)

\* C3: ToManifest is ok exactly for a B3Z digest of a size above the block
\* size, so never for a blob of one block or less nor for another kind of
\* digest and always for a blob of one block and a byte; the manifest
\* digest is a B3ZM digest with the hash and the instance of the blob.
C3_ToManifestOk ==
    \A k \in { ba.blockSizeBytes, Len(blob), Len(blob) + 1 }
                 \cup ({ Len(blob) - 1 } \ { 0 }) :
        /\ ToManifest(digest, k).ok
               <=> (SubSeq(digest, 1, 4) = << "B", "3", "Z", ":" >>
                    /\ Len(blob) > k)
        /\ ToManifest(digest, k).ok =>
               /\ SubSeq(ToManifest(digest, k).manifestDigest, 1, 5)
                      = << "B", "3", "Z", "M", ":" >>
               /\ ManifestDigestHash(ToManifest(digest, k).manifestDigest)
                      = SubSeq(GetHashString(digest), 5,
                               Len(GetHashString(digest)))
               /\ GetInstance(ToManifest(digest, k).manifestDigest)
                      = InstanceName

\* C3: Put has decomposed a blob of one block and a byte.
C3_ToManifestOkReached ==
    /\ Len(blob) = ba.blockSizeBytes + 1
    /\ pc = "putRead"
    /\ put.manifestDigest = ManifestDigestOf
    /\ ManifestDigestOf # BadDigest

\* C4: the manifest Put has assembled, once all blocks are appended, has
\* the length the manifest digest of ToManifest states: 64 bytes for every
\* block, and 33 more when the last block holds 1 to 1024 bytes.
C4_ManifestSize ==
    pc = "putManifest" =>
        /\ Len(put.manifest) = GetSizeBytes(put.manifestDigest)
        /\ Len(put.manifest)
               = (BlockCount * 64)
                 + (IF Len(ExpectedBlock(BlockCount)) <= 1024 THEN 33 ELSE 0)

\* C4: a complete manifest of the length its digest states, which ends in
\* an entry of 97 bytes.
C4_ManifestSizeReached ==
    /\ pc = "putManifest"
    /\ Len(put.manifest) = GetSizeBytes(put.manifestDigest)
    /\ Len(put.manifest) = ((BlockCount - 1) * 64) + 97

\* C5: a Put whose manifest would exceed the maximum returns
\* InvalidArgument, has issued no Read on the reader of its input and no
\* call to the base store, and has closed that reader exactly once.
C5_ManifestTooBig ==
    (Decomposable /\ ~Fits) =>
        /\ pc \notin { "putRead", "putBlock", "putManifest" }
        /\ \A i \in PutOps :
               /\ ops[i].done
               /\ ops[i].err.code = "InvalidArgument"
               /\ ops[i].calls = << >>
        /\ PutOps # { } =>
               /\ SourceOf(put.r).reads = 0
               /\ SourceOf(put.r).closes = 1
        /\ store = { }

\* C5: a Put has been refused for the size of its manifest.
C5_ManifestTooBigReached ==
    /\ Decomposable
    /\ ~Fits
    /\ PutOps # { }
    /\ SourceOf(put.r).closes = 1

\* C6: the calls of a Put that decomposes are the Puts of the blocks of the
\* blob in order, each of the block size but the last, which has the rest,
\* each issued once the one before has succeeded, then at most one Put of
\* the manifest; a Put that succeeds has issued all of them.
C6_PutOrdering ==
    (Decomposable /\ Fits) =>
        \A i \in PutOps :
            /\ Len(ops[i].calls) <= BlockCount + 1
            /\ \A j \in DOMAIN ops[i].calls :
                   /\ ops[i].calls[j].op = "Put"
                   /\ j < Len(ops[i].calls) => ops[i].calls[j].err = NoError
                   /\ j <= BlockCount =>
                          /\ JoinChunks(ops[i].calls[j].buffer.chunks)
                                 = ExpectedBlock(j)
                          /\ ops[i].calls[j].buffer.sizeBytes
                                 = IF j < BlockCount THEN ba.blockSizeBytes
                                   ELSE Len(blob)
                                        - ((BlockCount - 1) * ba.blockSizeBytes)
                          /\ SubSeq(ops[i].calls[j].digest, 1, 4)
                                 = << "B", "3", "Z", ":" >>
                          /\ GetSizeBytes(ops[i].calls[j].digest)
                                 = Len(ExpectedBlock(j))
                   /\ j = BlockCount + 1 =>
                          ops[i].calls[j].digest = ManifestDigestOf
            /\ (ops[i].done /\ ops[i].err = NoError) =>
                   Len(ops[i].calls) = BlockCount + 1

\* C6: a Put has stored a block of 2048 bytes, a last block of one byte and
\* then the manifest.
C6_PutOrderingReached ==
    /\ Decomposable
    /\ ba.blockSizeBytes = 2048
    /\ \E i \in PutOps :
           /\ ops[i].done
           /\ ops[i].err = NoError
           /\ Len(ops[i].calls) = BlockCount + 1
           /\ BlockCount = 2
           /\ ops[i].calls[2].buffer.sizeBytes = 1

\* C7: when the base store fails the Put of block j, the Put returns that
\* error with its code, wrapped with the offset (j - 1) * blockSize and the
\* digest of the block; the call that failed is its last, and the blocks
\* stored before it are still in the base store.
C7_BlockFailure ==
    (Decomposable /\ Fits) =>
        \A i \in PutOps :
            \A j \in DOMAIN ops[i].calls :
                (j <= BlockCount /\ ops[i].calls[j].err # NoError) =>
                    /\ ops[i].done
                    /\ ops[i].err
                           = Wrapped(ops[i].calls[j].err,
                                 "Failed to store block at offset %d with digest %s",
                                 << FormatInt((j - 1) * ba.blockSizeBytes),
                                    ops[i].calls[j].digest >>)
                    /\ Len(ops[i].calls) = j
                    /\ \A k \in 1..(j - 1) :
                           [digest |-> ops[i].calls[k].digest,
                            data |-> ExpectedBlock(k)] \in store

\* C7: the Put of the second block has failed.
C7_BlockFailureReached ==
    /\ Decomposable
    /\ \E i \in PutOps :
           /\ Len(ops[i].calls) = 2
           /\ BlockCount >= 2
           /\ ops[i].calls[2].err # NoError
           /\ ops[i].done
           /\ ops[i].err.code = "Unavailable"
           /\ [digest |-> ops[i].calls[1].digest,
               data |-> ExpectedBlock(1)] \in store

\* C8: a Put that decomposes returns success only when its input has ended
\* without error and all Puts of blocks and the Put of the manifest have
\* succeeded; when the Put of the manifest fails it returns that error
\* prefixed with "Failed to store manifest", which is not the message of a
\* block that failed.
C8_PutSuccess ==
    Decomposable =>
        \A i \in PutOps :
            /\ (ops[i].done /\ ops[i].err = NoError) =>
                   /\ ops[i].b.err = EOF
                   /\ Len(ops[i].calls) = BlockCount + 1
                   /\ \A j \in DOMAIN ops[i].calls :
                          ops[i].calls[j].err = NoError
                   /\ ops[i].calls[BlockCount + 1].digest = ManifestDigestOf
            /\ (/\ Len(ops[i].calls) = BlockCount + 1
                /\ ops[i].calls[BlockCount + 1].err # NoError) =>
                   /\ ops[i].done
                   /\ ops[i].err
                          = Wrapped(ops[i].calls[BlockCount + 1].err,
                                    "Failed to store manifest", << >>)
                   /\ ops[i].err.chain[1].format
                          # "Failed to store block at offset %d with digest %s"

\* C8: the Put of the manifest has failed after all blocks were stored.
C8_PutSuccessReached ==
    /\ Decomposable
    /\ \E i \in PutOps :
           /\ Len(ops[i].calls) = BlockCount + 1
           /\ ops[i].calls[BlockCount + 1].err # NoError
           /\ \A j \in 1..BlockCount : ops[i].calls[j].err = NoError
           /\ ops[i].done

\* C9: the first call of a Get that decomposes is the Get of the manifest.
\* When that fails, or the manifest is above the maximum size, the buffer
\* returned carries the error prefixed with "Failed to load manifest" and
\* no block is asked for.  Otherwise blocks are asked for only as the
\* buffer is consumed: none before the first Read, at most one per Read,
\* and block k only once the k - 1 blocks before it have been consumed.
C9_GetManifestFirst ==
    Decomposable =>
        \A i \in GetOps :
            /\ Len(ops[i].calls) >= 1
            /\ ops[i].calls[1].op = "Get"
            /\ ops[i].calls[1].digest = ManifestDigestOf
            /\ IF \/ ops[i].calls[1].err # NoError
                  \/ ops[i].calls[1].buffer.sizeBytes
                         > ba.maximumManifestSizeBytes
               THEN /\ ops[i].done
                    /\ Len(ops[i].calls) = 1
                    /\ ops[i].err.code # "OK"
                    /\ ops[i].err.chain[1]
                           = [format |-> "Failed to load manifest",
                              args |-> << >>]
                    /\ ops[i].calls[1].err # NoError =>
                           ops[i].err = Wrapped(ops[i].calls[1].err,
                                                "Failed to load manifest",
                                                << >>)
                    /\ ops[i].b = NewBufferFromError(ops[i].err)
                    /\ ops[i].data = << >>
               ELSE /\ \A k \in 2..Len(ops[i].calls) :
                           /\ ops[i].calls[k].op = "Get"
                           /\ SubSeq(ops[i].calls[k].digest, 1, 4)
                                  = << "B", "3", "Z", ":" >>
                    /\ (Len(ops[i].calls) - 2) * ba.blockSizeBytes
                           <= Len(ops[i].data)
                    /\ Len(ops[i].data)
                           <= (Len(ops[i].calls) - 1) * ba.blockSizeBytes
                    /\ (\A j \in GetOps : j <= i) =>
                           Len(ops[i].calls) - 1 <= get.reads

\* C9: a Get has loaded the manifest and then, Read by Read, two blocks.
C9_GetManifestFirstReached ==
    /\ Decomposable
    /\ \E i \in GetOps :
           /\ Len(ops[i].calls) = 3
           /\ ops[i].calls[1].err = NoError
           /\ get.reads >= 2
           /\ Len(ops[i].data) > ba.blockSizeBytes

\* C10: a Get or Put of a digest that is not decomposed makes one call to
\* the base store, with the digest and (Put) the buffer it was given, and
\* returns the buffer (Get) or error (Put) of that call as it is.
C10_NotDecomposable ==
    ~Decomposable =>
        /\ pc = "idle"
        /\ \A i \in DOMAIN ops :
               /\ ops[i].done
               /\ Len(ops[i].calls) = 1
               /\ ops[i].calls[1].op = ops[i].op
               /\ ops[i].calls[1].digest = digest
               /\ ops[i].calls[1].buffer = ops[i].b
               /\ ops[i].err = ops[i].calls[1].err

\* C10: a Put and then a Get of a blob that is not decomposed, though it is
\* no smaller than a block, have gone to the base store.
C10_NotDecomposableReached ==
    /\ ~Decomposable
    /\ Len(blob) >= ba.blockSizeBytes
    /\ Len(ops) = 2
    /\ ops[1].op = "Put"
    /\ ops[1].err = NoError
    /\ ops[2].op = "Get"
    /\ ops[2].data = blob


(***************************************************************************)
(* Properties of FindMissing.  They speak of the digests requested, of the *)
(* calls the base store received and answered, and of what FindMissing     *)
(* returned.                                                               *)
(***************************************************************************)
Requested == { fm.digests[i] : i \in DOMAIN fm.digests }

\* d names a blob the store decomposes.
Composed(d) ==
    /\ Len(d) >= 4
    /\ SubSeq(d, 1, 4) = << "B", "3", "Z", ":" >>
    /\ GetSizeBytes(d) > ba.blockSizeBytes

\* The calls of FindMissing the base store received after the first one.
FollowUps ==
    { i \in DOMAIN fm.calls : i > 1 /\ fm.calls[i].op = "FindMissing" }

\* The calls of Get the base store received.
ManifestLoads == { i \in DOMAIN fm.calls : fm.calls[i].op = "Get" }

\* The requested blobs whose manifest has digest m.
Owners(m) ==
    { d \in Requested :
        Composed(d) /\ ToManifest(d, ba.blockSizeBytes).manifestDigest = m }

FindMissingReturned == pc = "done" /\ DOMAIN fm.calls # { }

\* The block digests FindMissing has derived from the manifest of d.
Derived(d) == IF d \in DOMAIN fm.derived THEN fm.derived[d] ELSE { }

\* C11: FindMissing on a set without a decomposable digest calls the base
\* store once, with FindMissing on that very set, makes no other call and
\* returns what the base store answered.
C11_PassThroughOnly ==
    (FindMissingReturned /\ \A d \in Requested : ~Composed(d)) =>
        /\ Len(fm.calls) = 1
        /\ fm.calls[1].op = "FindMissing"
        /\ DOMAIN fm.calls[1].pending = Requested
        /\ fm.missing = fm.calls[1].missing
        /\ fm.err = fm.calls[1].err

\* C11: FindMissing has returned the answer of the base store for a set of
\* two digests that are not decomposable, one of which is missing.
C11_PassThroughReached ==
    /\ FindMissingReturned
    /\ \A d \in Requested : ~Composed(d)
    /\ Cardinality(Requested) = 2
    /\ DOMAIN fm.calls[1].pending = Requested
    /\ fm.err = NoError
    /\ Cardinality(fm.missing) = 1
    /\ fm.missing = fm.calls[1].missing

\* C12: when FindMissing returns no error, a composed digest is in the
\* result exactly if its manifest was reported missing, or the load of its
\* manifest returned NotFound, or a block digest derived from its manifest
\* was reported missing; a primitive digest is in the result exactly if the
\* base store reported it missing.
C12_ResultExact ==
    (FindMissingReturned /\ fm.err = NoError) =>
        \A d \in Requested :
            IF Composed(d)
            THEN d \in fm.missing <=>
                     \/ ToManifest(d, ba.blockSizeBytes).manifestDigest
                            \in fm.calls[1].missing
                     \/ \E i \in ManifestLoads :
                            /\ fm.calls[i].digest
                                   = ToManifest(d, ba.blockSizeBytes).manifestDigest
                            /\ fm.calls[i].err.code = "NotFound"
                     \/ \E i \in FollowUps :
                            \E b \in fm.calls[i].missing : b \in Derived(d)
            ELSE d \in fm.missing <=> d \in fm.calls[1].missing

\* C12: FindMissing has returned without an error and without the blob of
\* ManyBlocks blocks in the result, although a follow-up check, made after
\* the one that held its first batchSize block digests, reported missing
\* a block digest derived from its manifest that the other blob requested
\* shares with it.
C12_ResultExactReached ==
    /\ FindMissingReturned
    /\ fm.err = NoError
    /\ Requested = { ManyBlocksDigest, FewBlocksDigest }
    /\ ManyBlocksDigest \notin fm.missing
    /\ FewBlocksDigest \in fm.missing
    /\ \E i \in FollowUps, j \in FollowUps :
           /\ i < j
           /\ Cardinality(DOMAIN fm.calls[i].pending) = batchSize
           /\ fm.calls[i].missing = { }
           /\ \E b \in fm.calls[j].missing :
                  /\ b \in Derived(ManyBlocksDigest)
                  /\ b \in Derived(FewBlocksDigest)
                  /\ b \in DOMAIN fm.calls[i].pending
                  /\ fm.calls[j].pending[b] = { FewBlocksDigest }

\* C13: what FindMissing returns is a subset of what was requested.
C13_ResultRequested == FindMissingReturned => fm.missing \subseteq Requested

\* C13: FindMissing has returned a blob as missing whose manifest, which
\* was not requested, the base store reported missing.
C13_ResultRequestedReached ==
    /\ FindMissingReturned
    /\ fm.err = NoError
    /\ fm.missing # { }
    /\ \E m \in fm.calls[1].missing : m \notin Requested

\* C14: a load of a manifest that returns NotFound does not end FindMissing
\* and puts every blob that owns the manifest in the result of a call that
\* succeeds; a load that fails otherwise ends FindMissing with that error,
\* wrapped with the digest of the manifest, and with an empty result.
C14_ManifestLoadFailure ==
    \A i \in ManifestLoads :
        /\ fm.calls[i].err.code = "NotFound" =>
               /\ ~(pc = "done" /\ i = Len(fm.calls))
               /\ (pc = "done" /\ fm.err = NoError) =>
                      Owners(fm.calls[i].digest) \subseteq fm.missing
        /\ fm.calls[i].err.code \notin { "OK", "NotFound" } =>
               /\ pc = "done"
               /\ i = Len(fm.calls)
               /\ fm.err = Wrapped(fm.calls[i].err, "Failed to load manifest %s",
                                   << fm.calls[i].digest >>)
               /\ fm.missing = { }

\* C14: FindMissing has returned both blobs of a request as missing: the
\* manifest of one was not found on loading, a block of the other is
\* missing.
C14_ManifestLoadFailureReached ==
    /\ FindMissingReturned
    /\ fm.err = NoError
    /\ Cardinality(fm.missing) = 2
    /\ \E i \in ManifestLoads : fm.calls[i].err.code = "NotFound"
    /\ \E i \in ManifestLoads :
           /\ fm.calls[i].err = NoError
           /\ \E j \in FollowUps : j > i /\ fm.calls[j].missing # { }

\* C15: a follow-up check names at most 1000 block digests, and the blobs
\* recorded in its batch for a block it reports missing are missing; when
\* FindMissing succeeds, every block of every blob whose manifest was
\* loaded has been named, with that blob, in a follow-up check.
C15_Batching ==
    /\ \A i \in FollowUps :
           /\ Cardinality(DOMAIN fm.calls[i].pending) <= 1000
           /\ fm.calls[i].err = NoError =>
                  \A b \in fm.calls[i].missing :
                      fm.calls[i].pending[b] \subseteq fm.missingComposed
    /\ (FindMissingReturned /\ fm.err = NoError) =>
           /\ \A d \in DOMAIN fm.derived :
                  \A b \in fm.derived[d] :
                      \E i \in FollowUps :
                          /\ b \in DOMAIN fm.calls[i].pending
                          /\ d \in fm.calls[i].pending[b]
           /\ \A i \in ManifestLoads :
                  fm.calls[i].err = NoError =>
                      \A d \in Owners(fm.calls[i].digest) :
                          Cardinality(Derived(d))
                              = (GetSizeBytes(d) + ba.blockSizeBytes - 1)
                                    \div ba.blockSizeBytes

\* C15: FindMissing has succeeded after a follow-up check of 1000 block
\* digests and a later one of the block digest that was left.
C15_BatchingReached ==
    /\ FindMissingReturned
    /\ fm.err = NoError
    /\ \E i \in FollowUps, j \in FollowUps :
           /\ i < j
           /\ Cardinality(DOMAIN fm.calls[i].pending) = 1000
           /\ fm.calls[i].missing # { }
           /\ Cardinality(DOMAIN fm.calls[j].pending) = 1
    /\ fm.missing = Requested

\* The content a reader opened at off is to deliver.
ContentFrom(off) == SubSeq(blob, off + 1, Len(blob))

\* a is the beginning of b.
IsPrefix(a, b) == Len(a) <= Len(b) /\ a = SubSeq(b, 1, Len(a))

\* The reader of handle h has delivered content from its offset on, in
\* order and no more, and its Reads have returned no error but io.EOF,
\* which they have returned only after all of it.  A Read of a reader that
\* was closed is none of these: it ends in the panic of a call on nil.
DeliversContent(h) ==
    /\ IsPrefix(cb.readers[h].out, ContentFrom(cb.readers[h].off))
    /\ \/ cb.readers[h].err \in { NoError, EOF }
       \/ cb.readers[h].closes > 0 /\ cb.readers[h].err = NilDereference
    /\ cb.readers[h].err = EOF =>
           cb.readers[h].out = ContentFrom(cb.readers[h].off)

\* C16: ReadAt with a negative offset returns 0 and InvalidArgument, with
\* an offset at or beyond the size of the digest 0 and io.EOF; either way
\* the fetcher is not called and the slice is as it was.
C16_ReadAtOutside ==
    (/\ cb.readAt.calls > 0
     /\ \/ cb.readAt.off < 0
        \/ cb.readAt.off >= GetSizeBytes(digest)) =>
        /\ cb.readAt.n = 0
        /\ cb.readAt.fetched = << >>
        /\ cb.readAt.p = cb.readAt.before
        /\ cb.readAt.err =
               IF cb.readAt.off < 0
               THEN [code |-> "InvalidArgument",
                     chain |-> << [format |-> "Negative read offset: %d",
                                   args |-> << FormatInt(cb.readAt.off) >>] >>]
               ELSE EOF

\* C16: ReadAt was called at offset -1 with a slice of five bytes on a
\* buffer of five bytes, and returned InvalidArgument.
C16_ReadAtOutsideReached ==
    /\ cb.readAt.calls > 0
    /\ GetSizeBytes(digest) = 5
    /\ cb.readAt.off = -1
    /\ Len(cb.readAt.before) = 5
    /\ cb.readAt.err.code = "InvalidArgument"

\* C17: ReadAt at an offset within the content returns the number of bytes
\* from there to the end of the content, or the length of the slice if that
\* is less, and these bytes at the start of the slice; the error is nil
\* when the slice is full and io.EOF when it is not.
C17_ReadAtContent ==
    (/\ cb.readAt.calls > 0
     /\ cb.readAt.off >= 0
     /\ cb.readAt.off < GetSizeBytes(digest)) =>
        LET n == Min(Len(cb.readAt.before), Len(blob) - cb.readAt.off)
        IN  /\ cb.readAt.n = n
            /\ SubSeq(cb.readAt.p, 1, n)
                   = SubSeq(blob, cb.readAt.off + 1, cb.readAt.off + n)
            /\ cb.readAt.err = IF n = Len(cb.readAt.before) THEN NoError
                               ELSE EOF

\* C17: ReadAt has filled a slice of three bytes from offset 1 of five
\* bytes, out of three buffers, and returned no error.
C17_ReadAtContentReached ==
    /\ cb.readAt.calls > 0
    /\ Len(blob) = 5
    /\ cb.readAt.off = 1
    /\ cb.readAt.n = 3
    /\ cb.readAt.p = SubSeq(blob, 2, 4)
    /\ cb.readAt.fetched = << 1, 2, 3 >>
    /\ cb.readAt.err = NoError

\* C18: a chunk reader or a sequential reader opened at an offset from 0 to
\* the size, the offsets inside a buffer of the fetcher included, delivers
\* the content from that offset to the end, in order, and then io.EOF.
C18_ReadFromAnyOffset ==
    \A h \in DOMAIN cb.readers :
        (cb.readers[h].off >= 0 /\ cb.readers[h].off <= GetSizeBytes(digest))
            => DeliversContent(h)

\* C18: a chunk reader and a sequential reader, each opened on a clone at
\* offset 2 of five bytes, where the second buffer of the fetcher starts,
\* have delivered the last three bytes and returned io.EOF.
C18_ReadFromAnyOffsetReached ==
    /\ Len(blob) = 5
    /\ DOMAIN cb.readers = { 1, 2 }
    /\ cb.readers[1].kind = "chunk"
    /\ cb.readers[2].kind = "sequential"
    /\ \A h \in { 1, 2 } :
           /\ cb.readers[h].off = 2
           /\ cb.readers[h].out = SubSeq(blob, 3, 5)
           /\ cb.readers[h].err = EOF
           /\ cb.readers[h].fetched = << 2, 3 >>

\* C19: every offset the fetcher is called with, by ReadAt or by a reader,
\* after whatever Reads and calls of Close were made before, is at least 0
\* and less than the size of the digest, so that there is none for a size
\* of 0; and no call of ReadAt or Read has ended in the panic of a fetcher
\* called at an offset that none of its buffers holds.
C19_FetchWithinObject ==
    /\ \A fetched \in { cb.readAt.fetched }
                      \cup { cb.readers[h].fetched : h \in DOMAIN cb.readers } :
           \A i \in DOMAIN fetched :
               fetched[i] >= 0 /\ fetched[i] < GetSizeBytes(digest)
    /\ cb.readAt.err # Panic("Unexpected call")
    /\ \A h \in DOMAIN cb.readers :
           cb.readers[h].err # Panic("Unexpected call")

\* C19: a sequential reader opened at offset 0 of five bytes has called
\* the fetcher at 0, 2 and 3, has returned io.EOF, and has been read once
\* more after that without a further call.
C19_FetchWithinObjectReached ==
    /\ DOMAIN cb.readers = { 0 }
    /\ cb.readers[0].kind = "sequential"
    /\ cb.readers[0].off = 0
    /\ cb.readers[0].err = EOF
    /\ cb.readers[0].failed = 2
    /\ cb.readers[0].fetched = << 0, 2, 3 >>
    /\ cb.readers[0].out = blob

\* The offsets at which the buffers of the fetcher start, in order.
TileOffsets == [k \in DOMAIN cb.fetcher.tiles |-> cb.fetcher.tiles[k].offset]

\* C20: the readers of the two clones are two objects, and a Read or a
\* Close on one leaves the other as it was, offset and current reader
\* included; each reader opened at the start delivers the whole content in
\* order whatever the order of the Reads, and calls the fetcher for every
\* buffer in turn, as a reader on its own does.
C20_ClonesIndependent ==
    /\ [](\A h \in DOMAIN cb.readers \cap { 1, 2 } :
              cb.readers[h].off = 0 =>
                  /\ DeliversContent(h)
                  /\ IsPrefix(cb.readers[h].fetched, TileOffsets)
                  /\ cb.readers[h].err = EOF =>
                         cb.readers[h].fetched = TileOffsets)
    /\ [](DOMAIN cb.readers = { 1, 2 } =>
              cb.readers[1].ref # cb.readers[2].ref)
    /\ [][\A h \in DOMAIN cb.readers :
              (cb'.readers[h] # cb.readers[h]) =>
                  \A other \in DOMAIN cb.readers \ { h } :
                      /\ cb'.readers[other] = cb.readers[other]
                      /\ cb'.objects[cb.readers[other].ref]
                             = cb.objects[cb.readers[other].ref]]_vars

\* C20: the chunk readers of the two clones have both delivered the five
\* bytes, one in chunks of at most two bytes, and each has called the
\* fetcher at 0, 2 and 3.
C20_ClonesIndependentReached ==
    /\ DOMAIN cb.readers = { 1, 2 }
    /\ \A h \in { 1, 2 } :
           /\ cb.readers[h].kind = "chunk"
           /\ cb.readers[h].off = 0
           /\ cb.readers[h].err = EOF
           /\ cb.readers[h].out = blob
           /\ cb.readers[h].fetched = << 0, 2, 3 >>
    /\ Len(blob) = 5
    /\ cb.readers[1].n # cb.readers[2].n

\* What the k-th call of OnError has returned as its error.
Translated(k) ==
    IF k > Len(eh.r.errorHandler.script)
    THEN StatusWrap(eh.r.errorHandler.calls[k], "Giving up")
    ELSE IF "code" \in DOMAIN eh.r.errorHandler.script[k]
    THEN eh.r.errorHandler.script[k]
    ELSE NoError

\* C21: a Read opens every underlying reader it opens at the offset the
\* reader was constructed with plus the number of bytes returned so far,
\* with the chunk policy it was constructed with; and the chunks returned
\* so far, one after the other, are the content from the first offset on.
C21_ResumeAtOffset ==
    /\ [](IsPrefix(JoinChunks(eh.out), ContentFrom(eh.off)))
    /\ [][\A i \in DOMAIN eh'.r.opened :
              i > Len(eh.r.opened) =>
                  eh'.r.opened[i]
                      = [off |-> eh.off + Len(JoinChunks(eh.out)),
                         chunkPolicy |-> eh.chunkPolicy]]_vars

\* C21: a reader constructed at offset 1 has returned the rest of the
\* content and io.EOF, on its third underlying reader, the second of which
\* was opened after some bytes and the third after some more.
C21_ResumeAtOffsetReached ==
    /\ eh.off = 1
    /\ Len(eh.r.opened) = 3
    /\ eh.r.opened[2].off > 1
    /\ eh.r.opened[3].off > eh.r.opened[2].off
    /\ JoinChunks(eh.out) = ContentFrom(1)
    /\ eh.errs = << EOF >>

\* C22: OnError has been called with the errors other than io.EOF that the
\* underlying readers returned, once with each and in that order; every
\* error Read returned is io.EOF or an error OnError returned, and none is
\* an error of an underlying reader; an underlying reader was opened for
\* every buffer OnError returned, and for nothing else after the first.
C22_ErrorsHandled ==
    /\ eh.r.errorHandler.calls
           = SelectSeq(eh.originalErrs, LAMBDA e : e # EOF)
    /\ \A i \in DOMAIN eh.errs :
           /\ \/ eh.errs[i] = EOF
              \/ \E k \in DOMAIN eh.r.errorHandler.calls :
                     eh.errs[i] = Translated(k)
           /\ eh.errs[i] # EOF =>
                  \A j \in DOMAIN eh.originalErrs :
                      eh.errs[i] # eh.originalErrs[j]
    /\ Len(eh.r.opened) - 1
           = Cardinality({ k \in DOMAIN eh.r.errorHandler.calls :
                             Translated(k) = NoError })

\* C22: Read has returned a chunk, then the error of the handler, which had
\* answered a first failure with a buffer that failed at once, and then
\* that error again.
C22_ErrorsHandledReached ==
    /\ Len(eh.out) = 1
    /\ Len(eh.errs) = 2
    /\ eh.errs[1].code = "Unavailable"
    /\ Len(eh.r.errorHandler.calls) = 3
    /\ Len(eh.r.opened) = 2
    /\ EOF \notin { eh.originalErrs[j] : j \in DOMAIN eh.originalErrs }

\* C23: once the reader is closed, Done has been called once, and every
\* underlying reader that was opened, the first and those opened for the
\* buffers of the handler, has been closed once.
C23_ClosedOnce ==
    pc = "closed" =>
        /\ eh.r.errorHandler.done = 1
        /\ Len(eh.r.retired) + 1 = Len(eh.r.opened)
        /\ SourceOf(eh.r.r).closes = 1
        /\ \A i \in DOMAIN eh.r.retired : SourceOf(eh.r.retired[i]).closes = 1

\* C23: a reader was closed that had returned a chunk, an error of the
\* handler and, from its second underlying reader, io.EOF at last.
C23_ClosedOnceReached ==
    /\ pc = "closed"
    /\ Len(eh.r.retired) = 1
    /\ Len(eh.out) > 0
    /\ Len(eh.errs) = 2
    /\ eh.errs[1].code = "Unavailable"
    /\ eh.errs[2] = EOF

\* C24: under ChunkSizeExactly(k), over a stream that ends in io.EOF, every
\* chunk Read has returned but the last holds k bytes, the last holds 1 to
\* k bytes, and it holds fewer than k only when it ends the stream; once
\* io.EOF is returned the chunks are the whole stream.
C24_ExactChunks ==
    (/\ nr.chunkPolicy \in { ChunkSizeExactly(k) : k \in 1..MaxPolicySizeBytes }
     /\ nr.err = EOF) =>
        /\ \A i \in DOMAIN nr.out :
               /\ Len(nr.out[i]) >= 1
               /\ Len(nr.out[i]) <= nr.chunkPolicy.maximumSizeBytes
               /\ i < Len(nr.out) =>
                      Len(nr.out[i]) = nr.chunkPolicy.maximumSizeBytes
        /\ (/\ Len(nr.out) > 0
            /\ Len(nr.out[Len(nr.out)]) < nr.chunkPolicy.maximumSizeBytes) =>
               JoinChunks(nr.out) = blob
        /\ IsPrefix(JoinChunks(nr.out), blob)
        /\ \A i \in DOMAIN nr.errs : nr.errs[i] = EOF
        /\ Len(nr.errs) > 0 => JoinChunks(nr.out) = blob

\* C24: under ChunkSizeExactly(2), a stream of an empty chunk, a chunk of
\* one byte and a chunk of four was returned as two chunks of two bytes, a
\* last one of one byte, and io.EOF.
C24_ExactChunksReached ==
    /\ nr.chunkPolicy = ChunkSizeExactly(2)
    /\ Len(nr.chunks) = 3
    /\ Len(nr.chunks[1]) = 0
    /\ Len(nr.chunks[2]) = 1
    /\ Len(nr.chunks[3]) = 4
    /\ nr.out = << << 1, 2 >>, << 3, 4 >>, << 5 >> >>
    /\ nr.errs = << EOF >>

\* C25: no chunk Read has returned is empty or longer than the maximum of
\* the chunk policy, which under ChunkSizeAtMost(k) is k; the chunks are
\* the stream in order; under ChunkSizeAtMost(k) a Read that finds a
\* remainder of a chunk that was too long returns the beginning of that
\* remainder and does not read the underlying reader; the only error
\* returned is the one that ends the stream, and when that is io.EOF the
\* chunks are the whole stream.
C25_ChunksWithinMaximum ==
    /\ \A i \in DOMAIN nr.out :
           /\ Len(nr.out[i]) >= 1
           /\ Len(nr.out[i]) <= nr.chunkPolicy.maximumSizeBytes
    /\ IsPrefix(JoinChunks(nr.out), blob)
    /\ \A i \in DOMAIN nr.reads :
           (/\ Len(nr.reads[i].lastChunk) > 0
            /\ nr.chunkPolicy.minimumSizeBytes = 1) =>
               /\ nr.reads[i].err = NoError
               /\ nr.reads[i].underlying = 0
               /\ IsPrefix(nr.reads[i].chunk, nr.reads[i].lastChunk)
    /\ \A i \in DOMAIN nr.errs : nr.errs[i] = nr.err
    /\ (Len(nr.errs) > 0 /\ nr.err = EOF) => JoinChunks(nr.out) = blob

\* C25: under ChunkSizeAtMost(2), a stream of a chunk of four bytes, an
\* empty chunk and a chunk of one byte was returned as two chunks of two
\* bytes, the second without a Read of the underlying reader, and one of
\* one byte.
C25_ChunksWithinMaximumReached ==
    /\ nr.chunkPolicy = ChunkSizeAtMost(2)
    /\ Len(nr.chunks) = 3
    /\ Len(nr.chunks[1]) = 4
    /\ Len(nr.chunks[2]) = 0
    /\ nr.out = << << 1, 2 >>, << 3, 4 >>, << 5 >> >>
    /\ nr.reads[2].lastChunk = << 3, 4 >>
    /\ nr.reads[2].underlying = 0

\* The terminal entry of a stream of n bytes is its last 97 bytes when n is
\* 64 m + 97, its last 64 bytes when n is a positive multiple of 64, and
\* there is none otherwise.
TerminalSizeBytes(n) ==
    IF n >= 97 /\ (n - 97) % 64 = 0 THEN 97
    ELSE IF n > 0 /\ n % 64 = 0 THEN 64
    ELSE 0

\* The chaining value stack after the first k entries of 64 bytes of the
\* stream were appended as parent nodes.
RECURSIVE ParentsAppended(_)
ParentsAppended(k) ==
    IF k = 0 THEN NewChainingValueStack
    ELSE AppendNode(ParentsAppended(k - 1),
                    NewParentNode(BytesToWords(
                        SubSeq(blob, (64 * (k - 1)) + 1, 64 * k), 0, 16)))

\* The terminal node of a stream of n bytes that has one.
TerminalNode(n) ==
    IF TerminalSizeBytes(n) = 97
    THEN NewChunkNode(BytesToWords(SubSeq(blob, n - 96, n), 0, 8),
                      BytesToWords(SubSeq(blob, n - 96, n), 32, 16),
                      blob[n] % 128, blob[n] >= 128)
    ELSE NewParentNode(BytesToWords(SubSeq(blob, n - 63, n), 0, 16))

\* C26: GetBlockDigest at an offset inside block i of the manifest that
\* AppendBlockDigest built from all blocks in order returns, without a
\* panic, the digest AppendBlockDigest returned for block i and the offset
\* at which block i starts.
C26_BlockDigestIdempotent ==
    \A j \in DOMAIN mf.got :
        /\ mf.got[j].panic = ""
        /\ mf.appended[(mf.got[j].off \div mf.mp.blockSizeBytes) + 1].panic = ""
        /\ mf.got[j].digest
               = mf.appended[(mf.got[j].off \div mf.mp.blockSizeBytes) + 1].digest
        /\ mf.got[j].offset
               = (mf.got[j].off \div mf.mp.blockSizeBytes) * mf.mp.blockSizeBytes

\* C26: GetBlockDigest at offset 4096 of a blob of 4097 bytes in blocks of
\* 2048, inside the last block, has returned the digest AppendBlockDigest
\* returned for that block, of 1 byte, and offset 4096.
C26_BlockDigestIdempotentReached ==
    /\ pc = "got"
    /\ mf.mp.blockSizeBytes = 2048
    /\ mf.mp.blobSizeBytes = 4097
    /\ mf.got[1].off = 4096
    /\ mf.got[1].panic = ""
    /\ mf.got[1].offset = 4096
    /\ mf.got[1].digest = mf.appended[3].digest
    /\ GetSizeBytes(mf.got[1].digest) = 1

\* C27: after any Writes of n bytes in all since the hasher was made or
\* last reset, whatever was written before the Reset, the hasher has
\* appended the leading entries of 64 bytes of the stream, all but the
\* terminal entry
\* when n bytes make up a manifest, as parent nodes to its chaining value
\* stack, and holds the bytes that follow them; Sum returns the hash of the
\* root node of that stack and the terminal entry when there is one, and
\* panics when there is none.
C27_EntryFraming ==
    /\ "h" \in DOMAIN mf
    /\ TerminalSizeBytes(mf.written) > 0 =>
           /\ mf.h.entrySize = TerminalSizeBytes(mf.written)
           /\ SubSeq(mf.h.entry, 1, mf.h.entrySize)
                  = SubSeq(blob, mf.written - mf.h.entrySize + 1, mf.written)
           /\ mf.h.chainingValueStack
                  = ParentsAppended((mf.written - mf.h.entrySize) \div 64)
    /\ pc = "summed" =>
           IF TerminalSizeBytes(mf.written) = 0
           THEN mf.sum.panic # ""
           ELSE /\ mf.sum.panic = ""
                /\ mf.sum.sum
                       = GetHashValue(
                             StackGetRootNode(
                                 ParentsAppended(
                                     (mf.written - TerminalSizeBytes(mf.written))
                                         \div 64),
                                 TerminalNode(mf.written)),
                             32, << >>)

\* C27: Sum has returned a hash for a stream of 64 + 97 bytes written in
\* more than one Write, one parent entry and a terminal entry of 97 bytes.
C27_EntryFramingReached ==
    /\ pc = "summed"
    /\ mf.written = 161
    /\ mf.writes = 2
    /\ mf.sum.panic = ""
    /\ Len(mf.sum.sum) = 32
    /\ mf.h.chainingValueStack.totalNodes = 1

\* The hash NewDigest was called with, after the prefix B3Z: or B3ZM: if
\* it has one.
HashAfterPrefix ==
    IF HasPrefix(dg.hash, << "B", "3", "Z", ":" >>)
    THEN SubSeq(dg.hash, 5, Len(dg.hash))
    ELSE IF HasPrefix(dg.hash, << "B", "3", "Z", "M", ":" >>)
    THEN SubSeq(dg.hash, 6, Len(dg.hash))
    ELSE dg.hash

\* The arguments of NewDigest are well formed: the size is not negative,
\* the hash is in lower case hexadecimal, and its length is that of one of
\* the hashes of its family, which for BLAKE3ZCC is taken to be any length
\* but 0.
WellFormedArguments ==
    /\ dg.sizeBytes >= 0
    /\ \A i \in DOMAIN HashAfterPrefix :
           HashAfterPrefix[i] \in { HexDigits[k] : k \in DOMAIN HexDigits }
    /\ IF HashAfterPrefix = dg.hash
       THEN Len(dg.hash) \in { 32, 40, 64, 96, 128 }
       ELSE Len(HashAfterPrefix) > 0

\* The hashing algorithm a hash string names.
HashAlgorithm(hash) ==
    IF HasPrefix(hash, << "B", "3", "Z", ":" >>) THEN "BLAKE3ZCC"
    ELSE IF HasPrefix(hash, << "B", "3", "Z", "M", ":" >>)
    THEN "BLAKE3ZCC manifest"
    ELSE CASE Len(hash) = 32 -> "MD5"
           [] Len(hash) = 40 -> "SHA-1"
           [] Len(hash) = 64 -> "SHA-256"
           [] Len(hash) = 96 -> "SHA-384"
           [] Len(hash) = 128 -> "SHA-512"
           [] OTHER -> "none"

\* C28: NewDigest, called with arguments that are not well formed, has
\* returned BadDigest and an error of code InvalidArgument.
C28_MalformedRejected ==
    (pc # "arguments" /\ ~WellFormedArguments) =>
        /\ dg.d = BadDigest
        /\ dg.err.code = "InvalidArgument"

\* C28: NewDigest has rejected a hash of 32 characters that starts with
\* one that is not hexadecimal, with a size that is not negative.
C28_MalformedRejectedReached ==
    /\ pc = "rejected"
    /\ dg.hash = << "g" >> \o Hex(31)
    /\ dg.sizeBytes = 5
    /\ dg.d = BadDigest
    /\ dg.err.code = "InvalidArgument"

\* C29: the accessors of a digest NewDigest has returned without an error
\* have not panicked and have returned the instance, the hash with its
\* prefix and the size NewDigest was called with, and the keys
\* hash-size-instance and hash-size.
C29_AccessorRoundTrip ==
    pc = "accessed" =>
        /\ dg.got.panic = ""
        /\ dg.got.instance = dg.instance
        /\ dg.got.hashString = dg.hash
        /\ dg.got.sizeBytes = dg.sizeBytes
        /\ dg.got.keyWithInstance
               = dg.hash \o << "-" >> \o FormatInt(dg.sizeBytes) \o << "-" >>
                 \o dg.instance
        /\ dg.got.keyWithoutInstance
               = dg.hash \o << "-" >> \o FormatInt(dg.sizeBytes)

\* C29: the accessors have returned what NewDigest was called with for a
\* BLAKE3ZCC hash of 64 characters, an instance name with a dash and the
\* largest size.
C29_AccessorRoundTripReached ==
    /\ pc = "accessed"
    /\ dg.hash = << "B", "3", "Z", ":" >> \o Hex(64)
    /\ dg.instance = << "a", "-", "b" >>
    /\ dg.sizeBytes = MaxDigestSizeBytes
    /\ dg.got.panic = ""
    /\ dg.got.instance = dg.instance
    /\ dg.got.hashString = dg.hash
    /\ dg.got.sizeBytes = dg.sizeBytes
    /\ dg.got.keyWithoutInstance
           = dg.hash \o << "-" >> \o FormatInt(dg.sizeBytes)

\* C30: Sum of a Generator made from a digest has returned, without a
\* panic, a digest of the instance and the hashing algorithm of that
\* digest, whose size is the number of bytes written.
C30_GeneratorSameKind ==
    pc = "summed" =>
        /\ dg.sum.panic = ""
        /\ ~unpack(dg.sum.digest).panic
        /\ GetInstance(dg.sum.digest) = dg.instance
        /\ HashAlgorithm(GetHashString(dg.sum.digest)) = HashAlgorithm(dg.hash)
        /\ GetSizeBytes(dg.sum.digest) = dg.written

\* C30: Sum of a Generator made from a SHA-1 digest, after two Writes of
\* 65 bytes in all, has returned a SHA-1 digest of 65 bytes of the same
\* instance.
C30_GeneratorSameKindReached ==
    /\ pc = "summed"
    /\ dg.hash = Hex(40)
    /\ dg.instance = << "a", "-", "b" >>
    /\ dg.writes = 2
    /\ dg.written = 65
    /\ dg.sum.panic = ""
    /\ GetInstance(dg.sum.digest) = dg.instance
    /\ Len(GetHashString(dg.sum.digest)) = 40
    /\ GetSizeBytes(dg.sum.digest) = 65

\* C38: over a stream that ends in io.EOF, under every chunk policy, the
\* chunks Read has returned are, one after the other, a beginning of the
\* chunks of the stream one after the other, and all of them once Read has
\* returned io.EOF; no chunk is returned after io.EOF.
C38_ContentPreserved ==
    nr.err = EOF =>
        /\ nr.chunkPolicy.minimumSizeBytes >= 1
        /\ IsPrefix(JoinChunks(nr.out), JoinChunks(nr.chunks))
        /\ \A i \in DOMAIN nr.reads :
               nr.reads[i].err = EOF =>
                   /\ JoinChunks(nr.out) = JoinChunks(nr.chunks)
                   /\ \A j \in i..Len(nr.reads) : nr.reads[j].err = EOF
        /\ Len(JoinChunks(nr.out))
               = Len(JoinChunks([i \in DOMAIN nr.reads |-> nr.reads[i].chunk]))

\* C38: under ChunkSizeExactly(2), a stream of chunks of 3, 0 and 4 bytes
\* was returned whole, in four chunks, before io.EOF.
C38_ContentPreservedReached ==
    /\ nr.chunkPolicy = ChunkSizeExactly(2)
    /\ Len(nr.chunks) = 3
    /\ Len(nr.chunks[1]) = 3
    /\ Len(nr.chunks[2]) = 0
    /\ Len(nr.chunks[3]) = 4
    /\ Len(nr.out) = 4
    /\ JoinChunks(nr.out) = << 1, 2, 3, 4, 5, 6, 7 >>
    /\ nr.errs = << EOF >>

\* C39: the underlying reader is read once for every chunk of the stream
\* and once more for its error, and no more; a Read made after the
\* underlying reader has returned its error does not read it, returns what
\* is left of a chunk that was too long if there is any, and else that
\* error; every error Read returns is that error, and after it Read
\* returns no chunk.
C39_ErrorSticky ==
    /\ "r" \in DOMAIN nr
    /\ SourceOf(nr.r).reads <= Len(nr.chunks) + 1
    /\ \A i \in DOMAIN nr.reads :
           /\ nr.reads[i].lastErr # NoError =>
                  /\ nr.reads[i].lastErr = nr.err
                  /\ nr.reads[i].underlying = 0
                  /\ IF Len(nr.reads[i].lastChunk) > 0
                     THEN /\ nr.reads[i].err = NoError
                          /\ IsPrefix(nr.reads[i].chunk, nr.reads[i].lastChunk)
                     ELSE nr.reads[i].err = nr.err
           /\ nr.reads[i].err # NoError =>
                  \A j \in i..Len(nr.reads) : nr.reads[j].err = nr.err

\* C39: Read has returned the Internal error of the stream twice, after a
\* chunk cut from one that was too long, and the underlying reader was read
\* twice in all.
C39_ErrorStickyReached ==
    /\ nr.err.code = "Internal"
    /\ Len(nr.chunks) = 1
    /\ Len(nr.chunks[1]) = 4
    /\ nr.chunkPolicy = ChunkSizeAtMost(2)
    /\ Len(nr.out) = 2
    /\ nr.errs = << nr.err, nr.err >>
    /\ SourceOf(nr.r).reads = 2
    /\ nr.reads[4].lastErr = nr.err

\* C40: the loop over the blocks of a blob never panics; between two calls
\* of the base store its offset is that of a block inside the blob; and
\* when FindMissing has returned without an error, it has derived for
\* every blob whose manifest it loaded as many block digests as the blob
\* has blocks.
C40_EnumerationEnds ==
    /\ pc # "panic"
    /\ pc = "add" =>
           \E blobToCheck \in
                  { fm.summariesToCheck[fm.manifestDigest][fm.blobToCheck] } :
               /\ fm.currentOffset < GetSizeBytes(blobToCheck.blobDigest)
               /\ fm.currentOffset % ba.blockSizeBytes = 0
    /\ (FindMissingReturned /\ fm.err = NoError) =>
           \A d \in DOMAIN fm.derived :
               Cardinality(fm.derived[d])
                   = (GetSizeBytes(d) + ba.blockSizeBytes - 1)
                     \div ba.blockSizeBytes

\* C40: FindMissing has returned without an error after it derived three
\* block digests for a blob of 4097 bytes in blocks of 2048.
C40_EnumerationEndsReached ==
    /\ FindMissingReturned
    /\ fm.err = NoError
    /\ \E d \in DOMAIN fm.derived :
           /\ GetSizeBytes(d) = 4097
           /\ Cardinality(fm.derived[d]) = 3

(***************************************************************************)
(* The chaining value stack on its own: nodes are appended one at a time   *)
(* and the tree is terminated with a last node at any point.               *)
(***************************************************************************)
MaxNodes == 6

\* The chunk node of a chunk that holds the single byte k.
SingleByteNode(k) ==
    NewChunkNode(iv, getBlock(<< k >> \o SubSeq(ZeroBlock, 1,
                                                maximumBlockSize - 1)),
                 1, TRUE)

StackNodes == { SingleByteNode(1), SingleByteNode(2) }

NoNode == << >>

InitChainingValueStack ==
    /\ ba = NewDecomposingBlobAccess(0, 0)
    /\ blob = << >>
    /\ digest = BadDigest
    /\ store = << >>
    /\ pc = "stack"
    /\ put = NoPut
    /\ get = NoGet
    /\ ops = << >>
    /\ fm = << >>
    /\ cb = << >>
    /\ eh = << >>
    /\ nr = << >>
    /\ dg = << >>
    /\ mf = << >>
    /\ b3 = [s |-> NewChainingValueStack, nodes |-> << >>,
             lastNode |-> NoNode, root |-> NoNode]
    /\ sz = << >>
    /\ cas = << >>
    /\ au = << >>

\* s.AppendNode(n).
StackAppendNode ==
    /\ pc = "stack"
    /\ Len(b3.nodes) < MaxNodes
    /\ \E n \in StackNodes :
           b3' = [s |-> AppendNode(b3.s, n), nodes |-> Append(b3.nodes, n),
                  lastNode |-> NoNode, root |-> NoNode]
    /\ UNCHANGED << ba, blob, digest, store, pc, put, get, ops, fm, cb, eh,
                    nr, dg, mf, sz, cas, au >>

\* s.GetRootNode(lastNode): the stack is only read.
StackRootNode ==
    /\ pc = "stack"
    /\ \E n \in StackNodes :
           b3' = [b3 EXCEPT !.lastNode = n,
                            !.root = StackGetRootNode(b3.s, n)]
    /\ UNCHANGED << ba, blob, digest, store, pc, put, get, ops, fm, cb, eh,
                    nr, dg, mf, sz, cas, au >>

NextChainingValueStack == StackAppendNode \/ StackRootNode

SpecChainingValueStack ==
    InitChainingValueStack /\ [][NextChainingValueStack]_vars

\* The number of one bits of n.
RECURSIVE PopCount(_)
PopCount(n) == IF n = 0 THEN 0 ELSE (n % 2) + PopCount(n \div 2)

\* The largest power of two strictly smaller than n, for n >= 2.
RECURSIVE LargestPowerBelow(_)
LargestPowerBelow(n) ==
    IF n <= 2 THEN 1 ELSE 2 * LargestPowerBelow((n + 1) \div 2)

\* The root of the left-complete binary tree over one or more nodes: the
\* left subtree of a parent holds the largest power of two of leaves that
\* is strictly smaller than the number of leaves of the parent.
RECURSIVE LeftCompleteRoot(_)
LeftCompleteRoot(nodes) ==
    IF Len(nodes) = 1 THEN nodes[1]
    ELSE LET k == LargestPowerBelow(Len(nodes))
         IN  NewParentNode(
                 concatenate(
                     NodeChainingValue(LeftCompleteRoot(SubSeq(nodes, 1, k))),
                     NodeChainingValue(
                         LeftCompleteRoot(SubSeq(nodes, k + 1, Len(nodes))))))

\* C35: after n calls of AppendNode the stack holds as many chaining values
\* as n has one bits and totalNodes is n; GetRootNode with a last node
\* returns the root of the left-complete binary tree over the n + 1 nodes,
\* also when it was called before at an earlier point (it leaves the stack
\* as it found it).
C35_StackShape ==
    "s" \in DOMAIN b3 =>
        /\ b3.s.totalNodes = Len(b3.nodes)
        /\ Len(b3.s.stack) = PopCount(Len(b3.nodes))
        /\ b3.root # NoNode =>
               b3.root = LeftCompleteRoot(Append(b3.nodes, b3.lastNode))

\* C35: the tree over five appended nodes and a last node has been
\* terminated, with two chaining values on the stack.
C35_StackShapeReached ==
    /\ "s" \in DOMAIN b3
    /\ Len(b3.nodes) = 5
    /\ Len(b3.s.stack) = 2
    /\ b3.root # NoNode
    /\ b3.root.flags = flagParent

(***************************************************************************)
(* The chunk parser on its own: an input is written in slices of several   *)
(* lengths, the root node is taken at any point and hashed, or the input   *)
(* is appended to a manifest as one block.                                 *)
(***************************************************************************)
MaxParserWrites == 2

\* The lengths of the inputs, which hold the bytes i % 251 as in the
\* tests, and the input of the single byte 69, the last block of the blob
\* of 16385 bytes of the tests.
ParserInputLengths == { 0, 1, 64, 1024, 1025, 2049, 8192 }

ParserInputs == { BlobOfSize(n) : n \in ParserInputLengths } \cup { << 69 >> }

\* The lengths of the slices Write is called with, next to all that is left
\* of the input.
ParserWriteLengths == { 0, 1, 64, 1024 }

\* The output sizes GetHashValue is called with.
OutputSizes == { 32, 131 }

NoAppend == [panic |-> "none"]

InitChunkParser ==
    \E data \in ParserInputs :
        /\ ba = NewDecomposingBlobAccess(0, 0)
        /\ blob = data
        /\ digest = BadDigest
        /\ store = << >>
        /\ pc = "write"
        /\ put = NoPut
        /\ get = NoGet
        /\ ops = << >>
        /\ fm = << >>
        /\ cb = << >>
        /\ eh = << >>
        /\ nr = << >>
        /\ dg = << >>
        /\ mf = << >>
        /\ b3 = [p |-> NewChunkParser, written |-> 0, writes |-> << >>,
                 root |-> NoNode, sum |-> << >>, appended |-> NoAppend]
        /\ sz = << >>
        /\ cas = << >>
        /\ au = << >>

\* p.Write(b) with the next bytes of the input, as long as the root node
\* has not been taken.
ChunkParserWriteNext ==
    /\ pc = "write"
    /\ b3.root = NoNode
    /\ Len(b3.writes) < MaxParserWrites
    /\ \E n \in ParserWriteLengths \cup { Len(blob) - b3.written } :
           /\ b3.written + n <= Len(blob)
           /\ b3' = [p |-> ChunkParserWrite(
                               b3.p,
                               SubSeq(blob, b3.written + 1, b3.written + n)),
                     written |-> b3.written + n,
                     writes |-> Append(b3.writes, n),
                     root |-> NoNode, sum |-> << >>,
                     appended |-> NoAppend]
    /\ UNCHANGED << ba, blob, digest, store, pc, put, get, ops, fm, cb, eh,
                    nr, dg, mf, sz, cas, au >>

\* p.GetRootNode().
ChunkParserRootNode ==
    /\ pc = "write"
    /\ b3.root = NoNode
    /\ b3' = [b3 EXCEPT !.root = ChunkParserGetRootNode(b3.p)]
    /\ UNCHANGED << ba, blob, digest, store, pc, put, get, ops, fm, cb, eh,
                    nr, dg, mf, sz, cas, au >>

\* n.GetHashValue(outputSizeBytes, nil) on the root node.
ChunkParserHashValue ==
    /\ pc = "write"
    /\ b3.root # NoNode
    /\ b3.sum = << >>
    /\ \E outputSizeBytes \in OutputSizes :
           b3' = [b3 EXCEPT !.sum = GetHashValue(b3.root, outputSizeBytes,
                                                 << >>)]
    /\ UNCHANGED << ba, blob, digest, store, pc, put, get, ops, fm, cb, eh,
                    nr, dg, mf, sz, cas, au >>

\* mp.AppendBlockDigest(&manifest, block) with the input as the block.
ChunkParserAppendBlockDigest ==
    /\ pc = "write"
    /\ b3.writes = << >>
    /\ b3.root = NoNode
    /\ pc' = "appended"
    /\ b3' = [b3 EXCEPT !.appended =
                  AppendBlockDigest(
                      newBLAKE3ZCCManifestParser(InstanceName, Len(blob),
                                                 Len(blob) + 1, 32),
                      << >>, blob)]
    /\ UNCHANGED << ba, blob, digest, store, put, get, ops, fm, cb, eh,
                    nr, dg, mf, sz, cas, au >>

NextChunkParser ==
    \/ ChunkParserWriteNext
    \/ ChunkParserRootNode
    \/ ChunkParserHashValue
    \/ ChunkParserAppendBlockDigest

SpecChunkParser == InitChunkParser /\ [][NextChunkParser]_vars

\* C36: the root node taken after L bytes were written is a chunk node when
\* L <= 1024 and a parent node otherwise, whatever slices the bytes were
\* written in; it is the root node of the same bytes written at once; and
\* AppendBlockDigest on a block does not panic and writes a chunk entry
\* for at most 1024 bytes, a parent entry for more.
C36_NodeVariant ==
    "p" \in DOMAIN b3 =>
        /\ b3.root # NoNode =>
               /\ (GetChunkData(b3.root).panic = "") <=> (b3.written <= 1024)
               /\ (GetParentData(b3.root).panic = "") <=> (b3.written > 1024)
               /\ b3.sum = << >> =>
                      b3.root = ChunkParserGetRootNode(
                                    ChunkParserWrite(
                                        NewChunkParser,
                                        SubSeq(blob, 1, b3.written)))
        /\ pc = "appended" =>
               /\ b3.appended.panic = ""
               /\ Len(b3.appended.manifest)
                      = IF Len(blob) <= 1024
                        THEN blake3zccChunkNodeSizeBytes
                        ELSE blake3zccParentNodeSizeBytes

\* C36: 1024 bytes written as 1 byte and 1023 bytes gave a chunk node, and
\* 1025 bytes written as 1024 bytes and 1 byte gave a parent node.
C36_NodeVariantReached ==
    /\ "p" \in DOMAIN b3
    /\ b3.root # NoNode
    /\ \/ /\ b3.writes = << 1, 1023 >>
          /\ GetChunkData(b3.root).panic = ""
       \/ /\ b3.writes = << 1024, 1 >>
          /\ GetParentData(b3.root).panic = ""

\* The chaining value of chunk after its first i blocks of 64 bytes, with
\* a counter of zero in every compression.
RECURSIVE ZeroCounterChunkValue(_, _)
ZeroCounterChunkValue(chunk, i) ==
    IF i = 0 THEN iv
    ELSE truncate(compress(ZeroCounterChunkValue(chunk, i - 1),
                           BytesToWords(chunk, maximumBlockSize * (i - 1), 16),
                           0, maximumBlockSize,
                           IF i = 1 THEN flagChunkStart ELSE 0))

\* The node of a chunk of at most 1024 bytes: all blocks but the last are
\* compressed into the chaining value, the last one is padded with zeroes.
ZeroCounterChunkNode(chunk) ==
    LET blocks == IF Len(chunk) = 0 THEN 1
                  ELSE (Len(chunk) + maximumBlockSize - 1)
                       \div maximumBlockSize
        from == maximumBlockSize * (blocks - 1)
        last == SubSeq(chunk, from + 1, Len(chunk))
    IN  [chainingValue |-> ZeroCounterChunkValue(chunk, blocks - 1),
         m |-> BytesToWords(last \o [i \in 1..(maximumBlockSize - Len(last))
                                         |-> 0], 0, 16),
         blockSize |-> Len(last),
         flags |-> IF blocks = 1 THEN flagChunkEnd + flagChunkStart
                   ELSE flagChunkEnd]

\* The root node of the BLAKE3 tree of data in which every compression has
\* a counter of zero: chunks of 1024 bytes, and parents whose left subtree
\* holds the largest power of two of chunks below the number of chunks.
RECURSIVE ZeroCounterRoot(_)
ZeroCounterRoot(data) ==
    IF Len(data) <= 1024 THEN ZeroCounterChunkNode(data)
    ELSE LET k == 1024 * LargestPowerBelow((Len(data) + 1023) \div 1024)
             left == ZeroCounterRoot(SubSeq(data, 1, k))
             right == ZeroCounterRoot(SubSeq(data, k + 1, Len(data)))
         IN  [chainingValue |-> iv,
              m |-> truncate(compress(left.chainingValue, left.m, 0,
                                      left.blockSize, left.flags))
                    \o truncate(compress(right.chainingValue, right.m, 0,
                                         right.blockSize, right.flags)),
              blockSize |-> maximumBlockSize,
              flags |-> flagParent]

\* The first 131 bytes of the BLAKE3 output for the empty input.
BLAKE3OfNothing ==
    << 175, 19, 73, 185, 245, 249, 161, 166, 160, 64, 77, 234, 54, 220, 201,
       73, 155, 203, 37, 201, 173, 193, 18, 183, 204, 154, 147, 202, 228,
       31, 50, 98, 224, 15, 3, 231, 182, 154, 242, 107, 127, 170, 240, 159,
       205, 51, 48, 80, 51, 141, 223, 224, 133, 184, 204, 134, 156, 169,
       139, 32, 108, 8, 36, 58, 38, 245, 72, 119, 137, 232, 246, 96, 175,
       230, 201, 158, 249, 224, 197, 43, 146, 231, 57, 48, 36, 168, 4, 89,
       207, 145, 244, 118, 249, 255, 219, 218, 112, 1, 194, 46, 21, 155, 64,
       38, 49, 242, 119, 202, 150, 242, 222, 253, 241, 7, 130, 130, 49, 78,
       118, 54, 153, 163, 28, 83, 99, 22, 84, 33, 204, 225, 77 >>

\* The hash of the single byte 69, from the tests of the repository.
BLAKE3OfLastBlock ==
    << 234, 111, 29, 53, 125, 52, 152, 143, 115, 85, 0, 226, 136, 103, 166,
       183, 133, 27, 21, 135, 30, 219, 43, 213, 156, 1, 241, 57, 50, 12,
       171, 129 >>

\* The BLAKE3ZCC hash of the first 8192 bytes i % 251, from the tests.
BLAKE3ZCCOfFirstBlock ==
    << 115, 201, 50, 190, 194, 85, 81, 107, 34, 148, 136, 214, 175, 61, 41,
       252, 120, 14, 24, 107, 202, 225, 180, 139, 187, 248, 18, 14, 205, 64,
       204, 67 >>

\* C37: the root node equals the one of the BLAKE3 tree computed with a
\* counter of zero in every compression; output block k of the hash value
\* is the compression of the root node with counter k and the root flag;
\* the hash of the empty input and of one byte are those of BLAKE3, and the
\* hash of 8192 bytes is the one the tests expect.
C37_ZeroChunkCounter ==
    "p" \in DOMAIN b3 =>
        /\ (b3.root # NoNode /\ b3.sum = << >>) =>
               b3.root = ZeroCounterRoot(SubSeq(blob, 1, b3.written))
        /\ b3.sum # << >> =>
               /\ Len(b3.sum) \in OutputSizes
               /\ \A k \in 0..((Len(b3.sum) - 1) \div 64) :
                      SubSeq(b3.sum, (64 * k) + 1,
                             Min(Len(b3.sum), 64 * (k + 1)))
                          = SubSeq(WordsToBytes(
                                       compress(b3.root.chainingValue,
                                                b3.root.m, k,
                                                b3.root.blockSize,
                                                b3.root.flags + flagRoot)),
                                   1, Min(64, Len(b3.sum) - (64 * k)))
               /\ b3.written = 0 =>
                      b3.sum = SubSeq(BLAKE3OfNothing, 1, Len(b3.sum))
               /\ (blob = << 69 >> /\ b3.written = 1) =>
                      SubSeq(b3.sum, 1, 32) = BLAKE3OfLastBlock
               /\ b3.written = 8192 =>
                      SubSeq(b3.sum, 1, 32) = BLAKE3ZCCOfFirstBlock

\* C37: 8192 bytes written as 1024 and 7168 bytes were hashed to 131 bytes
\* of output, three output blocks.
C37_ZeroChunkCounterReached ==
    /\ "p" \in DOMAIN b3
    /\ b3.writes = << 1024, 7168 >>
    /\ Len(b3.sum) = 131
    /\ b3.root.flags = flagParent

(***************************************************************************)
(* 64 bit integers.  A natural number of any size is a sequence of limbs   *)
(* of 15 bits, the least significant first and the most significant not    *)
(* zero; an int64 or uint64 is the natural number below 2^64 that has its  *)
(* bit pattern.                                                            *)
(***************************************************************************)
LimbBits == 15

Limb == Pow2(LimbBits)

RECURSIVE NatTrim(_)
NatTrim(a) ==
    IF Len(a) = 0 \/ a[Len(a)] # 0 THEN a
    ELSE NatTrim(SubSeq(a, 1, Len(a) - 1))

RECURSIVE NatOfInt(_)
NatOfInt(n) == IF n = 0 THEN << >> ELSE << n % Limb >> \o NatOfInt(n \div Limb)

NatLimb(a, i) == IF i <= Len(a) THEN a[i] ELSE 0

\* a + b, from limb i on with the carry c.
RECURSIVE NatAddFrom(_, _, _, _)
NatAddFrom(a, b, i, c) ==
    IF i > Len(a) /\ i > Len(b)
    THEN (IF c = 0 THEN << >> ELSE << c >>)
    ELSE << (NatLimb(a, i) + NatLimb(b, i) + c) % Limb >>
         \o NatAddFrom(a, b, i + 1,
                       (NatLimb(a, i) + NatLimb(b, i) + c) \div Limb)

NatAdd(a, b) == NatAddFrom(a, b, 1, 0)

\* a < b, deciding from limb i down.
RECURSIVE NatLessFrom(_, _, _)
NatLessFrom(a, b, i) ==
    IF i = 0 THEN FALSE
    ELSE IF a[i] # b[i] THEN a[i] < b[i]
    ELSE NatLessFrom(a, b, i - 1)

NatLess(a, b) ==
    IF Len(a) # Len(b) THEN Len(a) < Len(b) ELSE NatLessFrom(a, b, Len(a))

\* a - b for a >= b, from limb i on with the borrow c.
RECURSIVE NatSubFrom(_, _, _, _)
NatSubFrom(a, b, i, c) ==
    IF i > Len(a) THEN << >>
    ELSE << (a[i] - NatLimb(b, i) - c + Limb) % Limb >>
         \o NatSubFrom(a, b, i + 1,
                       IF a[i] - NatLimb(b, i) - c < 0 THEN 1 ELSE 0)

NatSub(a, b) == NatTrim(NatSubFrom(a, b, 1, 0))

\* a * m for 0 <= m < 2^15, from limb i on with the carry c.
RECURSIVE NatMulSmallFrom(_, _, _, _)
NatMulSmallFrom(a, m, i, c) ==
    IF i > Len(a) THEN (IF c = 0 THEN << >> ELSE << c >>)
    ELSE << ((a[i] * m) + c) % Limb >>
         \o NatMulSmallFrom(a, m, i + 1, ((a[i] * m) + c) \div Limb)

NatMulSmall(a, m) == NatTrim(NatMulSmallFrom(a, m, 1, 0))

\* a * 2^k.
NatShiftLeft(a, k) ==
    IF Len(a) = 0 THEN a
    ELSE [i \in 1..(k \div LimbBits) |-> 0]
         \o NatMulSmall(a, Pow2(k % LimbBits))

NatPow2(k) == NatShiftLeft(<< 1 >>, k)

\* Bit i of a, bit 0 the least significant.
NatBit(a, i) ==
    (NatLimb(a, (i \div LimbBits) + 1) \div Pow2(i % LimbBits)) % 2

\* One step of long division by b: r is the remainder with the next bit
\* of the dividend entered, and the quotient gets the next bit.
NatDivStep(st, b, r) ==
    << r,
       IF NatLess(r, b)
       THEN [q |-> NatAdd(st.q, st.q), r |-> r]
       ELSE [q |-> NatAdd(NatAdd(st.q, st.q), << 1 >>),
             r |-> NatSub(r, b)] >>[2]

\* Long division of a by b over the bits hi down to lo of a; NatDivRest
\* goes on from the state st.
RECURSIVE NatDivBits(_, _, _, _, _)
RECURSIVE NatDivRest(_, _, _, _, _)
NatDivBits(a, b, st, hi, lo) ==
    IF hi < lo THEN st
    ELSE IF hi = lo
    THEN NatDivStep(st, b, NatAdd(NatAdd(st.r, st.r),
                                  NatOfInt(NatBit(a, hi))))
    ELSE NatDivRest(a, b,
                    NatDivBits(a, b, st, hi, lo + ((hi - lo + 1) \div 2)),
                    lo + ((hi - lo + 1) \div 2) - 1, lo)

NatDivRest(a, b, st, hi, lo) == << st, NatDivBits(a, b, st, hi, lo) >>[2]

\* Quotient q and remainder r of a by b, for b > 0.
NatDivMod(a, b) ==
    NatDivBits(a, b, [q |-> << >>, r |-> << >>], (LimbBits * Len(a)) - 1, 0)

\* a * b, summed over the bits hi down to lo of b.
RECURSIVE NatMulBits(_, _, _, _)
NatMulBits(a, b, hi, lo) ==
    IF hi < lo THEN << >>
    ELSE IF hi = lo
    THEN (IF NatBit(b, hi) = 1 THEN NatShiftLeft(a, hi) ELSE << >>)
    ELSE NatAdd(NatMulBits(a, b, hi, lo + ((hi - lo + 1) \div 2)),
                NatMulBits(a, b, lo + ((hi - lo + 1) \div 2) - 1, lo))

NatMul(a, b) == NatMulBits(a, b, (LimbBits * Len(b)) - 1, 0)

\* The last n decimal digits of the small number k, as characters.
RECURSIVE FormatPadded(_, _)
FormatPadded(k, n) ==
    IF n = 0 THEN << >>
    ELSE Append(FormatPadded(k \div 10, n - 1), AsciiFrom45[(k % 10) + 4])

\* The decimal digits of a, as characters, four at a time; NatFormatLast
\* takes a divided by 10000.
RECURSIVE NatFormatDigits(_)
RECURSIVE NatFormatLast(_)
NatFormatDigits(a) ==
    IF Len(a) = 0 THEN << >>
    ELSE IF Len(a) = 1 /\ a[1] < 10000 THEN FormatDigits(a[1])
    ELSE NatFormatLast(NatDivMod(a, << 10000 >>))

NatFormatLast(dm) ==
    << dm,
       NatFormatDigits(dm.q)
       \o FormatPadded(IF Len(dm.r) = 0 THEN 0 ELSE dm.r[1], 4) >>[2]

NatFormat(a) == IF Len(a) = 0 THEN << "0" >> ELSE NatFormatDigits(a)

\* The small number with the decimal digits s.
RECURSIVE ParseSmall(_)
ParseSmall(s) ==
    IF Len(s) = 0 THEN 0
    ELSE (10 * ParseSmall(SubSeq(s, 1, Len(s) - 1))) + Ascii(s[Len(s)]) - 48

\* The number with the decimal digits s, four at a time.
RECURSIVE NatParse(_)
NatParse(s) ==
    IF Len(s) <= 4 THEN NatOfInt(ParseSmall(s))
    ELSE NatAdd(NatMulSmall(NatParse(SubSeq(s, 1, Len(s) - 4)), 10000),
                NatOfInt(ParseSmall(SubSeq(s, Len(s) - 3, Len(s)))))

\* The low 64 bits of a.
Truncate64(a) ==
    IF Len(a) <= 4 THEN a
    ELSE NatTrim(SubSeq(a, 1, 4) \o << a[5] % 16 >>)

\* The uint64 operators +, - and /.
Uint64Add(a, b) == Truncate64(NatAdd(a, b))

Uint64Sub(a, b) ==
    IF NatLess(a, b) THEN NatSub(NatPow2(64), NatSub(b, a)) ELSE NatSub(a, b)

Uint64Div(a, b) == NatDivMod(a, b).q

\* The sign of an int64, and its decimal form.
Int64Negative(a) == NatBit(a, 63) = 1

Int64Format(a) ==
    IF Int64Negative(a)
    THEN << "-" >> \o NatFormat(NatSub(NatPow2(64), a))
    ELSE NatFormat(a)

\* a > b for int64 values.
Int64Greater(a, b) ==
    IF Int64Negative(a) # Int64Negative(b) THEN Int64Negative(b)
    ELSE NatLess(b, a)

\* The int64 operators * (by a small constant), % (of values that are not
\* negative) and <=.
Int64MulSmall(a, m) == Truncate64(NatMulSmall(a, m))

Int64Mod(a, b) == NatDivMod(a, b).r

Int64LessOrEqual(a, b) == ~Int64Greater(a, b)

\* The loop of unpack that extracts the size, on int64 values: value is
\* what the digest holds from sizeBytesEnd on, and every byte up to the
\* next '-' enters as a digit, int64(value[sizeBytesEnd] - '0') being the
\* difference of two bytes.  A value that ends before a '-' is indexed
\* out of range.
RECURSIVE unpackSizeBytesWide(_, _)
RECURSIVE unpackSizeBytesWideNext(_, _)
unpackSizeBytesWide(value, sizeBytes) ==
    IF Len(value) = 0 THEN [panic |-> TRUE, sizeBytes |-> sizeBytes]
    ELSE IF Head(value) = "-" THEN [panic |-> FALSE, sizeBytes |-> sizeBytes]
    ELSE unpackSizeBytesWideNext(
             Tail(value),
             Truncate64(NatAdd(NatMulSmall(sizeBytes, 10),
                               NatOfInt((Ascii(Head(value)) - 48) % 256))))

\* The next turn of the loop, with sizeBytes computed.
unpackSizeBytesWideNext(value, sizeBytes) ==
    << sizeBytes, unpackSizeBytesWide(value, sizeBytes) >>[2]

\* ToManifest: sizeBytes <= blockSizeBytes, on int64 values.
ToManifestTooSmallWide(sizeBytes, blockSizeBytes) ==
    Int64LessOrEqual(sizeBytes, blockSizeBytes)

\* The low 32 bits of a.
Truncate32(a) ==
    IF Len(a) <= 2 THEN a
    ELSE NatTrim(SubSeq(a, 1, 2) \o << a[3] % 4 >>)

\* convertSizeToBlockCount that computes in uint32.
convertSizeToBlockCountNarrow(blobSizeBytes, blockSizeBytes) ==
    Uint64Div(Truncate32(NatSub(NatAdd(blobSizeBytes, blockSizeBytes),
                                << 1 >>)),
              blockSizeBytes)

\* convertSizeToBlockCount on int64 values: the sum and the division are
\* those of uint64.
convertSizeToBlockCountWide(blobSizeBytes, blockSizeBytes) ==
    Uint64Div(Uint64Sub(Uint64Add(blobSizeBytes, blockSizeBytes), << 1 >>),
              blockSizeBytes)

\* ToManifest: manifestSizeBytes, computed in int64 from the block count.
ToManifestSizeBytesFrom(blockCount, lastBlockSizeBytes) ==
    IF Int64Greater(lastBlockSizeBytes, << >>)
       /\ Int64LessOrEqual(lastBlockSizeBytes, NatOfInt(1024))
    THEN Uint64Add(Int64MulSmall(blockCount, blake3zccParentNodeSizeBytes),
                   NatOfInt(blake3zccChunkNodeSizeBytes
                            - blake3zccParentNodeSizeBytes))
    ELSE Int64MulSmall(blockCount, blake3zccParentNodeSizeBytes)

ToManifestSizeBytesWide(sizeBytes, blockSizeBytes) ==
    ToManifestSizeBytesFrom(
        convertSizeToBlockCountWide(sizeBytes, blockSizeBytes),
        Int64Mod(sizeBytes, blockSizeBytes))

(***************************************************************************)
(* The size of the manifest on its own: ToManifest on a digest of any size *)
(* an int64 holds, and the test Put makes of the size of the manifest.     *)
(***************************************************************************)
MaxInt64 == NatSub(NatPow2(63), << 1 >>)

\* The sizes of the blobs, the smallest and the largest ones included.
WideBlobSizes ==
    { << >>, << 1 >>, NatOfInt(1025), NatOfInt(2049), NatOfInt(8192),
      NatOfInt(8193), NatOfInt(16384), NatOfInt(268436481), NatPow2(31),
      NatAdd(NatPow2(32), << 1 >>), NatPow2(53), NatPow2(62),
      NatSub(MaxInt64, << 1 >>), MaxInt64 }

\* The block sizes: above 1024 bytes up to the largest int64, and the two
\* small ones 1 and 64.
WideBlockSizes ==
    { << 1 >>, << 64 >>, NatOfInt(1025), NatOfInt(2048), NatOfInt(8192),
      NatPow2(31), NatPow2(62), MaxInt64 }

WideMaximumManifestSizes == { NatOfInt(2 * 1024 * 1024), NatPow2(30) }

InitManifestSize ==
    \E sizeBytes \in WideBlobSizes, blockSizeBytes \in WideBlockSizes,
       maximumManifestSizeBytes \in WideMaximumManifestSizes :
        /\ ba = NewDecomposingBlobAccess(0, 0)
        /\ blob = << >>
        /\ digest = BadDigest
        /\ store = << >>
        /\ pc = "size"
        /\ put = NoPut
        /\ get = NoGet
        /\ ops = << >>
        /\ fm = << >>
        /\ cb = << >>
        /\ eh = << >>
        /\ nr = << >>
        /\ dg = << >>
        /\ mf = << >>
        /\ b3 = << >>
        /\ sz = [sizeBytes |-> NatFormat(sizeBytes),
                 blockSizeBytes |-> blockSizeBytes,
                 maximumManifestSizeBytes |-> maximumManifestSizeBytes,
                 ok |-> FALSE, blockCount |-> << >>,
                 manifestSizeBytes |-> << >>, extracted |-> << >>,
                 err |-> NoError]
        /\ cas = << >>
        /\ au = << >>

\* Digest.ToManifest(blockSizeBytes), as far as sizes go: unpack extracts
\* the size of the blob from the digest, which holds it in decimal before
\* a '-', and the size of the manifest is written into the digest of the
\* manifest with %d.
ManifestSizeToManifest ==
    /\ pc = "size"
    /\ pc' = "manifest"
    /\ \E u \in { unpackSizeBytesWide(sz.sizeBytes \o << "-" >>, << >>) } :
           IF u.panic
           THEN sz' = [sz EXCEPT !.err = IndexOutOfRange]
           ELSE IF ToManifestTooSmallWide(u.sizeBytes, sz.blockSizeBytes)
           THEN sz' = sz
           ELSE sz' = [sz EXCEPT
                    !.ok = TRUE,
                    !.blockCount =
                        convertSizeToBlockCountWide(u.sizeBytes,
                                                    sz.blockSizeBytes),
                    !.manifestSizeBytes =
                        Int64Format(
                            ToManifestSizeBytesWide(u.sizeBytes,
                                                    sz.blockSizeBytes))]
    /\ UNCHANGED << ba, blob, digest, store, put, get, ops, fm, cb, eh, nr,
                    dg, mf, b3, cas, au >>

\* decomposingBlobAccess.Put, up to the loop: GetSizeBytes extracts the
\* size of the manifest from its digest, where a negative size starts
\* with the '-' that ends the loop of unpack, and a manifest that is
\* larger than the maximum fails the call.  make then allocates the
\* manifest with the size extracted as its capacity.
ManifestSizePut ==
    /\ pc = "manifest"
    /\ pc' = "done"
    /\ \E u \in { unpackSizeBytesWide(sz.manifestSizeBytes \o << "-" >>,
                                      << >>) } :
           sz' = [sz EXCEPT
                    !.extracted = u.sizeBytes,
                    !.err =
                      IF ~sz.ok THEN sz.err
                      ELSE IF u.panic THEN IndexOutOfRange
                      ELSE IF Int64Greater(u.sizeBytes,
                                           sz.maximumManifestSizeBytes)
                      THEN StatusErrorf("InvalidArgument",
                               "Buffer requires a manifest that is %d bytes in size, while a maximum of %d bytes is permitted",
                               << Int64Format(u.sizeBytes),
                                  Int64Format(sz.maximumManifestSizeBytes) >>)
                      ELSE NoError]
    /\ UNCHANGED << ba, blob, digest, store, put, get, ops, fm, cb, eh, nr,
                    dg, mf, b3, cas, au >>

NextManifestSize == ManifestSizeToManifest \/ ManifestSizePut

SpecManifestSize == InitManifestSize /\ [][NextManifestSize]_vars

\* The number of blocks of sizeBytes in blocks of blockSizeBytes is q:
\* q blocks hold the blob and q - 1 do not.
ExactBlockCount(sizeBytes, blockSizeBytes, q) ==
    /\ ~NatLess(NatMul(q, blockSizeBytes), sizeBytes)
    /\ Len(q) > 0
    /\ NatLess(NatMul(NatSub(q, << 1 >>), blockSizeBytes), sizeBytes)

\* The size of the manifest of q blocks, the last block being what the
\* other q - 1 blocks leave of the blob, without any limit on the size of
\* numbers.
ExactManifestSize(sizeBytes, blockSizeBytes, q) ==
    IF NatLess(NatSub(sizeBytes, NatMul(NatSub(q, << 1 >>), blockSizeBytes)),
               NatOfInt(1025))
    THEN NatAdd(NatMul(q, << 64 >>), << 33 >>)
    ELSE NatMul(q, << 64 >>)

\* C31: for a block size above 1024 and a blob larger than a block, the
\* block count ToManifest computes is the exact number of blocks and the
\* manifest size is the exact 64 bytes per block, plus 33 when the last
\* block holds 1 to 1024 bytes, never negative; Put extracts that size
\* from the digest of the manifest and fails with
\* InvalidArgument exactly when that size exceeds the maximum, and names
\* the exact size; for the largest int64 in blocks of 8192 that is
\* 72057594037927936.
C31_NoOverflow ==
    ("ok" \in DOMAIN sz /\ sz.ok /\ NatLess(NatOfInt(1024), sz.blockSizeBytes))
    => /\ ExactBlockCount(NatParse(sz.sizeBytes), sz.blockSizeBytes,
                          sz.blockCount)
       /\ sz.manifestSizeBytes
              = NatFormat(ExactManifestSize(NatParse(sz.sizeBytes),
                                            sz.blockSizeBytes, sz.blockCount))
       /\ pc = "done" =>
              /\ sz.extracted
                     = ExactManifestSize(NatParse(sz.sizeBytes),
                                         sz.blockSizeBytes, sz.blockCount)
              /\ sz.err.code \in { "OK", "InvalidArgument" }
              /\ (sz.err.code = "InvalidArgument")
                     <=> NatLess(sz.maximumManifestSizeBytes,
                                 NatParse(sz.manifestSizeBytes))
              /\ sz.err.code = "InvalidArgument" =>
                     sz.err.chain[1].args
                         = << sz.manifestSizeBytes,
                              NatFormat(sz.maximumManifestSizeBytes) >>
              /\ (NatParse(sz.sizeBytes) = MaxInt64
                  /\ sz.blockSizeBytes = NatOfInt(8192)) =>
                     /\ sz.err.code = "InvalidArgument"
                     /\ sz.manifestSizeBytes
                            = << "7", "2", "0", "5", "7", "5", "9", "4", "0",
                                 "3", "7", "9", "2", "7", "9", "3", "6" >>

\* C31: Put of a blob of 2^63 - 1 bytes in blocks of 8192 has failed with
\* InvalidArgument, the manifest being 2^50 entries of 64 bytes.
C31_NoOverflowReached ==
    /\ "ok" \in DOMAIN sz
    /\ pc = "done"
    /\ sz.ok
    /\ NatParse(sz.sizeBytes) = MaxInt64
    /\ sz.blockSizeBytes = NatOfInt(8192)
    /\ sz.blockCount = NatPow2(50)
    /\ sz.manifestSizeBytes = NatFormat(NatPow2(56))
    /\ sz.err.code = "InvalidArgument"

(***************************************************************************)
(* A CAS buffer made from a byte slice: the data is checked against the    *)
(* digest when it is turned into a byte slice, and the repair function of  *)
(* the repair strategy is called when the check fails.                     *)
(***************************************************************************)
\* The value of a hexadecimal digit, -1 for any other character.
HexValue(c) ==
    LET a == Ascii(c)
    IN  IF a >= 48 /\ a <= 57 THEN a - 48
        ELSE IF a >= 97 /\ a <= 102 THEN a - 87
        ELSE IF a >= 65 /\ a <= 70 THEN a - 55
        ELSE -1

\* hex.DecodeString.
DecodeString(s) ==
    IF Len(s) % 2 # 0 \/ \E i \in DOMAIN s : HexValue(s[i]) < 0
    THEN [ok |-> FALSE, bytes |-> << >>]
    ELSE [ok |-> TRUE,
          bytes |-> [i \in 1..(Len(s) \div 2) |->
                        (16 * HexValue(s[(2 * i) - 1])) + HexValue(s[2 * i])]]

\* GetHashBytes that returns the first byte of the hash only.
GetHashBytesTruncated(d) ==
    [panic |-> "", bytes |-> SubSeq(DecodeString(GetHashString(d)).bytes, 1, 1)]

\* Digest.GetHashBytes(): GetHashString() panics where unpack() does.
GetHashBytes(d) ==
    IF unpack(d).panic
    THEN [panic |-> "index out of range", bytes |-> << >>]
    ELSE LET hashString == GetHashString(d)
             withoutB3Z == IF HasPrefix(hashString, << "B", "3", "Z", ":" >>)
                           THEN SubSeq(hashString, 5, Len(hashString))
                           ELSE hashString
             bare == IF HasPrefix(withoutB3Z, << "B", "3", "Z", "M", ":" >>)
                     THEN SubSeq(withoutB3Z, 6, Len(withoutB3Z))
                     ELSE withoutB3Z
         IN  IF DecodeString(bare).ok
             THEN [panic |-> "", bytes |-> DecodeString(bare).bytes]
             ELSE [panic |-> "Failed to decode digest hash, even though its contents have already been validated",
                   bytes |-> << >>]

\* buffer.NewCASBufferFromByteSlice(digest, data, repairStrategy).
NewCASBufferFromByteSlice(d, data, repairStrategy) ==
    [digest |-> d, data |-> data, repairStrategy |-> repairStrategy]

\* buffer.Reparable(digest, repairFunc).
Reparable(d) == [digest |-> d, reparable |-> TRUE]

\* ToByteSlice(maximumSizeBytes) on a CAS buffer made from a byte slice,
\* given the checksum of its data: the data, the error and the number of
\* calls of the repair function.
CASBufferToByteSliceWith(b, maximumSizeBytes, actual, expected) ==
    IF Len(b.data) # GetSizeBytes(b.digest)
    THEN [data |-> << >>,
          err |-> StatusErrorf("Internal",
                               "Buffer is %d bytes in size, while %d bytes were expected",
                               << FormatInt(Len(b.data)),
                                  FormatInt(GetSizeBytes(b.digest)) >>),
          repairs |-> IF b.repairStrategy.reparable THEN 1 ELSE 0]
    ELSE IF actual # expected
    THEN [data |-> << >>,
          err |-> StatusErrorf("Internal",
                               "Buffer has checksum %s, while %s was expected",
                               << EncodeToString(actual),
                                  EncodeToString(expected) >>),
          repairs |-> IF b.repairStrategy.reparable THEN 1 ELSE 0]
    ELSE IF Len(b.data) > maximumSizeBytes
    THEN [data |-> << >>,
          err |-> StatusErrorf("InvalidArgument",
                               "Buffer is %d bytes in size, while a maximum of %d bytes is permitted",
                               << FormatInt(Len(b.data)),
                                  FormatInt(maximumSizeBytes) >>),
          repairs |-> 0]
    ELSE [data |-> b.data, err |-> NoError, repairs |-> 0]

\* The checksum is that of digest.NewHasher() after the data was written
\* to it, and it is compared with digest.GetHashBytes(); a panic of either
\* is the outcome.
CASBufferToByteSlice(b, maximumSizeBytes) ==
    IF NewHasher(b.digest).panic # ""
    THEN [data |-> << >>, err |-> Panic(NewHasher(b.digest).panic),
          repairs |-> 0]
    ELSE IF GetHashBytes(b.digest).panic # ""
    THEN [data |-> << >>, err |-> Panic(GetHashBytes(b.digest).panic),
          repairs |-> 0]
    ELSE CASBufferToByteSliceWith(
             b, maximumSizeBytes,
             IF Len(b.data) = GetSizeBytes(b.digest)
             THEN HasherSum(HasherWrite(NewHasher(b.digest).hasher,
                                        b.data)).sum
             ELSE << >>,
             GetHashBytes(b.digest).bytes)

\* The hashes and the bodies of TestNewCASBufferFromByteSliceSuccess: one of
\* each hash of the standard library, and BLAKE3ZCC of the first 0, 1, 64
\* and 1025 bytes of identity251.
CASVectors ==
    { [hash |-> << "8", "b", "1", "a", "9", "9", "5", "3", "c", "4", "6", "1",
                   "1", "2", "9", "6", "a", "8", "2", "7", "a", "b", "f", "8",
                   "c", "4", "7", "8", "0", "4", "d", "7" >>,
       body |-> << 72, 101, 108, 108, 111 >>],
      [hash |-> << "a", "5", "4", "d", "8", "8", "e", "0", "6", "6", "1", "2",
                   "d", "8", "2", "0", "b", "c", "3", "b", "e", "7", "2", "8",
                   "7", "7", "c", "7", "4", "f", "2", "5", "7", "b", "5", "6",
                   "1", "b", "1", "9" >>,
       body |-> << 84, 104, 105, 115, 32, 105, 115, 32, 97, 32, 116, 101, 115, 116 >>],
      [hash |-> << "1", "d", "1", "f", "7", "1", "a", "e", "c", "d", "9", "b",
                   "2", "d", "8", "1", "2", "7", "e", "5", "a", "9", "1", "f",
                   "c", "8", "7", "1", "8", "3", "3", "f", "f", "f", "e", "5",
                   "8", "c", "5", "c", "6", "3", "a", "c", "e", "e", "d", "9",
                   "f", "6", "f", "d", "0", "b", "7", "1", "f", "e", "7", "3",
                   "2", "5", "0", "4" >>,
       body |-> << 65, 110, 100, 32, 97, 110, 111, 116, 104, 101, 114, 32, 116, 101, 115, 116 >>],
      [hash |-> << "8", "e", "b", "2", "4", "e", "0", "8", "5", "1", "2", "6",
                   "0", "f", "9", "e", "e", "8", "3", "e", "8", "8", "a", "4",
                   "7", "a", "0", "a", "e", "7", "6", "8", "7", "1", "c", "8",
                   "c", "8", "a", "8", "b", "e", "f", "d", "f", "c", "3", "9",
                   "9", "3", "1", "b", "4", "2", "a", "3", "3", "4", "c", "d",
                   "0", "f", "c", "d", "5", "9", "5", "e", "8", "e", "6", "7",
                   "6", "6", "e", "f", "4", "7", "1", "e", "5", "f", "2", "d",
                   "5", "0", "b", "7", "4", "e", "0", "4", "1", "e", "8", "d" >>,
       body |-> << 69, 118, 101, 110, 32, 108, 111, 110, 103, 101, 114, 32, 99, 104, 101, 99, 107, 115, 117, 109, 115 >>],
      [hash |-> << "b", "1", "d", "3", "3", "b", "b", "2", "1", "d", "b", "3",
                   "0", "4", "2", "0", "9", "f", "5", "8", "4", "b", "5", "5",
                   "e", "1", "a", "8", "6", "d", "b", "3", "8", "c", "7", "c",
                   "4", "4", "c", "4", "6", "6", "c", "6", "8", "0", "c", "3",
                   "8", "8", "0", "5", "d", "b", "0", "7", "a", "9", "2", "d",
                   "4", "3", "2", "6", "0", "d", "0", "e", "8", "2", "f", "f",
                   "d", "0", "a", "4", "8", "c", "3", "3", "7", "d", "4", "0",
                   "3", "7", "2", "a", "4", "a", "c", "5", "b", "9", "b", "e",
                   "1", "f", "f", "2", "4", "b", "e", "e", "f", "2", "c", "9",
                   "9", "0", "e", "6", "e", "a", "3", "f", "2", "0", "7", "9",
                   "d", "0", "6", "7", "b", "0", "e", "0" >>,
       body |-> << 82, 105, 100, 105, 99, 117, 108, 111, 117, 115, 108, 121, 32, 108, 111, 110, 103, 32, 99, 104, 101, 99, 107, 115, 117, 109, 115 >>],
      [hash |-> << "B", "3", "Z", ":", "a", "f", "1", "3", "4", "9", "b", "9",
                   "f", "5", "f", "9", "a", "1", "a", "6", "a", "0", "4", "0",
                   "4", "d", "e", "a", "3", "6", "d", "c", "c", "9", "4", "9",
                   "9", "b", "c", "b", "2", "5", "c", "9", "a", "d", "c", "1",
                   "1", "2", "b", "7", "c", "c", "9", "a", "9", "3", "c", "a",
                   "e", "4", "1", "f", "3", "2", "6", "2" >>,
       body |-> BlobOfSize(0)],
      [hash |-> << "B", "3", "Z", ":", "2", "d", "3", "a", "d", "e", "d", "f",
                   "f", "1", "1", "b", "6", "1", "f", "1", "4", "c", "8", "8",
                   "6", "e", "3", "5", "a", "f", "a", "0", "3", "6", "7", "3",
                   "6", "d", "c", "d", "8", "7", "a", "7", "4", "d", "2", "7",
                   "b", "5", "c", "1", "5", "1", "0", "2", "2", "5", "d", "0",
                   "f", "5", "9", "2", "e", "2", "1", "3" >>,
       body |-> BlobOfSize(1)],
      [hash |-> << "B", "3", "Z", ":", "4", "e", "e", "d", "7", "1", "4", "1",
                   "e", "a", "4", "a", "5", "c", "d", "4", "b", "7", "8", "8",
                   "6", "0", "6", "b", "d", "2", "3", "f", "4", "6", "e", "2",
                   "1", "2", "a", "f", "9", "c", "a", "c", "e", "b", "a", "c",
                   "d", "c", "7", "d", "1", "f", "4", "c", "6", "d", "c", "7",
                   "f", "2", "5", "1", "1", "b", "9", "8" >>,
       body |-> BlobOfSize(64)],
      [hash |-> << "B", "3", "Z", ":", "c", "8", "f", "3", "d", "3", "2", "9",
                   "3", "f", "c", "5", "2", "e", "5", "2", "5", "b", "c", "b",
                   "3", "3", "e", "1", "8", "2", "a", "4", "e", "1", "6", "0",
                   "a", "5", "b", "d", "f", "2", "1", "9", "b", "9", "5", "1",
                   "b", "a", "c", "5", "e", "7", "b", "4", "1", "d", "a", "5",
                   "c", "7", "3", "7", "f", "1", "d", "5" >>,
       body |-> BlobOfSize(1025)] }

\* The hash of the digest of TestNewCASBufferFromByteSliceHashMismatch.
CASOtherHash ==
    << "d", "4", "1", "d", "8", "c", "d", "9", "8", "f", "0", "0", "b", "2",
       "0", "4", "e", "9", "8", "0", "0", "9", "9", "8", "e", "c", "f", "8",
       "4", "2", "7", "e" >>

\* The checksum of "Hello" in the error of that test.
CASHelloHash ==
    << "8", "b", "1", "a", "9", "9", "5", "3", "c", "4", "6", "1", "1", "2",
       "9", "6", "a", "8", "2", "7", "a", "b", "f", "8", "c", "4", "7", "8",
       "0", "4", "d", "7" >>

\* The byte slices: the bodies of the vectors.
CASData == { v.body : v \in CASVectors }

\* The sizes of the digests: those of the bodies, and the 6 bytes of
\* TestNewCASBufferFromByteSliceSizeMismatch.
CASSizes == { Len(data) : data \in CASData } \cup { 6 }

\* The digests: every hash of the vectors with every size, and the digest
\* of TestNewCASBufferFromByteSliceHashMismatch.
CASDigests ==
    { MustNewDigest(InstanceName, v.hash, sizeBytes) :
          v \in CASVectors, sizeBytes \in CASSizes }
    \cup { MustNewDigest(InstanceName, CASOtherHash, 5) }

NoResult == [data |-> << >>, err |-> NoError, repairs |-> -1]

InitCASBuffer ==
    \E data \in CASData, d \in CASDigests, less \in { 0, 1 } :
        /\ ba = NewDecomposingBlobAccess(0, 0)
        /\ blob = data
        /\ digest = d
        /\ store = << >>
        /\ pc = "new"
        /\ put = NoPut
        /\ get = NoGet
        /\ ops = << >>
        /\ fm = << >>
        /\ cb = << >>
        /\ eh = << >>
        /\ nr = << >>
        /\ dg = << >>
        /\ mf = << >>
        /\ b3 = << >>
        /\ sz = << >>
        /\ cas = [maximumSizeBytes |-> Len(data) - less,
                  b |-> << >>, result |-> NoResult, repairs |-> 0]
        /\ au = << >>

\* buffer.NewCASBufferFromByteSlice(digest, data, Reparable(digest, f)).
CASNewBuffer ==
    /\ pc = "new"
    /\ pc' = "buffer"
    /\ cas' = [cas EXCEPT !.b = NewCASBufferFromByteSlice(digest, blob,
                                                          Reparable(digest))]
    /\ UNCHANGED << ba, blob, digest, store, put, get, ops, fm, cb, eh, nr,
                    dg, mf, b3, sz, au >>

\* b.ToByteSlice(maximumSizeBytes), which consumes the buffer.
CASToByteSlice ==
    /\ pc = "buffer"
    /\ pc' = "done"
    /\ \E result \in { CASBufferToByteSlice(cas.b, cas.maximumSizeBytes) } :
           cas' = [cas EXCEPT !.b = << >>, !.result = result,
                              !.repairs = @ + result.repairs]
    /\ UNCHANGED << ba, blob, digest, store, put, get, ops, fm, cb, eh, nr,
                    dg, mf, b3, sz, au >>

NextCASBuffer == CASNewBuffer \/ CASToByteSlice

SpecCASBuffer == InitCASBuffer /\ [][NextCASBuffer]_vars

\* The hash of a vector without the prefix of BLAKE3ZCC, as checksums are
\* printed.
CASChecksumOf(hash) ==
    IF HasPrefix(hash, << "B", "3", "Z", ":" >>)
    THEN SubSeq(hash, 5, Len(hash))
    ELSE hash

\* By the vectors, the data is what the digest names: the digest has the
\* hash of a vector whose body is the data, and the size of the data.
CASMatches ==
    /\ Len(blob) = GetSizeBytes(digest)
    /\ \E v \in CASVectors : v.hash = GetHashString(digest) /\ v.body = blob

Bearer == << "B", "e", "a", "r", "e", "r", " " >>

\* strings.TrimPrefix.
TrimPrefix(s, prefix) ==
    IF HasPrefix(s, prefix) THEN SubSeq(s, Len(prefix) + 1, Len(s)) ELSE s

\* strings.Split(s, "."), as jose.ParseSigned applies it to the token.
RECURSIVE SplitParts(_)
SplitParts(s) ==
    IF \A i \in DOMAIN s : s[i] # "."
    THEN << s >>
    ELSE LET i == CHOOSE j \in DOMAIN s :
                      s[j] = "." /\ \A k \in 1..(j - 1) : s[k] # "."
         IN  << SubSeq(s, 1, i - 1) >> \o SplitParts(SubSeq(s, i + 1, Len(s)))

\* The protected header {"alg":"HS256","typ":"JWT"} of the signers of the
\* tests.
JWTHeader == "H"

\* The payloads: the claims they hold as JSON, nil dates left out.  The
\* dates are those of the tests and of the edges of the leeway around
\* time.Unix(1600000000, 0) and a minute and a second later.
PayloadClaims ==
    [a |-> [iss |-> "buildbarn"],
     b |-> [iss |-> "buildbarn", exp |-> 1599996400],
     c |-> [iss |-> "buildbarn", exp |-> 1599999940],
     d |-> [iss |-> "buildbarn", nbf |-> 1600000060],
     e |-> [iss |-> "buildbarn", nbf |-> 1600000062],
     f |-> [iss |-> "buildbarn", iat |-> 1600000100]]

\* A payload that is base64 but no JSON object of claims.
NoClaimsPayload == "z"

Payloads == DOMAIN PayloadClaims \cup { NoClaimsPayload }

\* The keys that sign: two that authenticators are configured with, and
\* one that none is.
SymmetricKeys == { "1", "2", "3" }

\* jwt.Signed(signer).Claims(c).CompactSerialize().
CompactSerialize(k, header, payload) ==
    << header, ".", payload, ".", k, header, payload >>

\* jwt.ParseSigned: three parts, each of them decodable, and a header that
\* is one.
ParseSigned(s) ==
    LET parts == SplitParts(s)
    IN  IF Len(parts) # 3
        THEN [ok |-> FALSE,
              err |-> StatusErrorf("Unknown",
                  "square/go-jose: compact JWS format must have three parts",
                  << >>)]
        ELSE IF parts[1] # << JWTHeader >>
        THEN [ok |-> FALSE,
              err |-> StatusErrorf("Unknown",
                  "illegal base64 data at input byte 0", << >>)]
        ELSE [ok |-> TRUE, header |-> parts[1], payload |-> parts[2],
              signature |-> parts[3], err |-> NoError]

\* The verification of the signature of a parsed token under a key.
Verify(tok, k) ==
    tok.signature = << k >> \o tok.header \o tok.payload

\* tok.Claims(key, &claims): the signature is verified, then the payload is
\* unmarshalled.
TokenClaims(tok, k) ==
    IF ~Verify(tok, k)
    THEN [ok |-> FALSE, claims |-> << >>]
    ELSE IF Len(tok.payload) # 1 \/ tok.payload[1] \notin DOMAIN PayloadClaims
    THEN [ok |-> FALSE, claims |-> << >>]
    ELSE [ok |-> TRUE, claims |-> PayloadClaims[tok.payload[1]]]

\* jwt.DefaultLeeway, in seconds.
DefaultLeeway == 1 * 60

\* claims.Validate(jwt.Expected{Time: now}): only the dates are compared.
ClaimsValidate(claims, now) ==
    /\ ~("nbf" \in DOMAIN claims /\ now + DefaultLeeway < claims.nbf)
    /\ ~("exp" \in DOMAIN claims /\ now - DefaultLeeway > claims.exp)
    /\ ~("iat" \in DOMAIN claims /\ now + DefaultLeeway < claims.iat)

\* util.StatusWrapWithCode(err, code, msg).
StatusWrapWithCode(err, code, msg) ==
    [code |-> code,
     chain |-> << [format |-> msg, args |-> << >>] >> \o err.chain]

AuthorizationRequired ==
    StatusErrorf("Unauthenticated", "authorization required", << >>)

\* The loop over the verification keys from position i: the first key under
\* which the claims are obtained decides.
RECURSIVE VerifyKeysFrom(_, _, _, _)
VerifyKeysFrom(verifyKeys, i, tok, now) ==
    IF i > Len(verifyKeys) THEN AuthorizationRequired
    ELSE LET r == TokenClaims(tok, verifyKeys[i])
         IN  IF r.ok
             THEN IF ClaimsValidate(r.claims, now) THEN NoError
                  ELSE AuthorizationRequired
             ELSE VerifyKeysFrom(verifyKeys, i + 1, tok, now)

\* The loop with a single iteration.
AuthenticateFirstKey(a, ctx) ==
    IF ~ctx.grpc
    THEN StatusErrorf("Unauthenticated",
                      "Connection was not established using gRPC", << >>)
    ELSE IF "authorization" \notin DOMAIN ctx.md
            \/ Len(ctx.md["authorization"]) < 1
    THEN AuthorizationRequired
    ELSE IF Len(ctx.md["authorization"]) > 1
    THEN StatusErrorf("Unauthenticated",
                      "multiple authorization headers are not supported",
                      << >>)
    ELSE IF ~HasPrefix(ctx.md["authorization"][1], Bearer)
    THEN AuthorizationRequired
    ELSE LET tok == ParseSigned(TrimPrefix(ctx.md["authorization"][1], Bearer))
         IN  IF ~tok.ok
             THEN StatusWrapWithCode(tok.err, "Unauthenticated",
                                     "authorization required")
             ELSE VerifyKeysFrom(IF a.verifyKeys = << >> THEN << >>
                                      ELSE << a.verifyKeys[1] >>,
                                      1, tok, ctx.now)

\* jwtAuthenticator.Authenticate.  ctx.grpc tells whether the context holds
\* incoming metadata, ctx.md is that metadata and ctx.now what a.clock.Now()
\* returns.
Authenticate(a, ctx) ==
    IF ~ctx.grpc
    THEN StatusErrorf("Unauthenticated",
                      "Connection was not established using gRPC", << >>)
    ELSE IF "authorization" \notin DOMAIN ctx.md
            \/ Len(ctx.md["authorization"]) < 1
    THEN AuthorizationRequired
    ELSE IF Len(ctx.md["authorization"]) > 1
    THEN StatusErrorf("Unauthenticated",
                      "multiple authorization headers are not supported",
                      << >>)
    ELSE IF ~HasPrefix(ctx.md["authorization"][1], Bearer)
    THEN AuthorizationRequired
    ELSE LET tok == ParseSigned(TrimPrefix(ctx.md["authorization"][1], Bearer))
         IN  IF ~tok.ok
             THEN StatusWrapWithCode(tok.err, "Unauthenticated",
                                     "authorization required")
             ELSE VerifyKeysFrom(a.verifyKeys, 1, tok, ctx.now)

\* NewJWTAuthenticator(keys, clock).
NewJWTAuthenticator(keys) == [verifyKeys |-> keys]

(***************************************************************************)
(* The authenticator under requests.                                       *)
(***************************************************************************)
MaxVerifyKeys == 2

\* The configurations: no key, and the keys "1" and "2" in every order.
VerifyKeyConfigurations ==
    UNION { [1..n -> { "1", "2" }] : n \in 0..MaxVerifyKeys }

\* Tokens: those a signer makes, those whose payload was replaced after the
\* signing, one with a header that does not decode, the token of two parts
\* of the tests, one of four parts and the empty one.
Tokens ==
    { CompactSerialize(k, JWTHeader, p) : k \in SymmetricKeys, p \in Payloads }
    \cup { << JWTHeader, ".", p, ".", k, JWTHeader, "a" >> :
               k \in SymmetricKeys, p \in { "b", "c" } }
    \cup { CompactSerialize("1", "?", "a"),
           << JWTHeader, ".", "a" >>,
           CompactSerialize("1", JWTHeader, "a") \o << ".", "a" >>,
           << >> }

\* The values of the authorization header.
AuthorizationValues ==
    { Bearer \o t : t \in Tokens }
    \cup { << "b", "e", "a", "r", "e", "r", " " >>
               \o CompactSerialize("1", JWTHeader, "a"),
           << "B", "e", "a", "r", "e", "r" >>
               \o CompactSerialize("1", JWTHeader, "a"),
           CompactSerialize("1", JWTHeader, "a"),
           << "h", "e", "l", "l", "o" >>,
           << "w", "o", "r", "l", "d" >> }

GoodValue == Bearer \o CompactSerialize("1", JWTHeader, "a")

\* The metadata of a request: without the header, with the header and no
\* value, with one value, with two.
Metadata ==
    { << >>, [authorization |-> << >>] }
    \cup { [authorization |-> << v >>] : v \in AuthorizationValues }
    \cup { [authorization |-> << v, w >>] :
               v \in { GoodValue, << "h", "e", "l", "l", "o" >> },
               w \in { GoodValue, << "w", "o", "r", "l", "d" >> } }

\* What the clock returns, as seconds since the epoch.
Nows == { 1600000000, 1600000001, 1600000061 }

Contexts ==
    { [grpc |-> gr, md |-> md, now |-> now] :
          gr \in BOOLEAN, md \in Metadata, now \in Nows }

NoRequest == << >>

InitJWTAuthenticator ==
    /\ ba = NewDecomposingBlobAccess(0, 0)
    /\ blob = << >>
    /\ digest = BadDigest
    /\ store = << >>
    /\ pc = "authenticate"
    /\ put = NoPut
    /\ get = NoGet
    /\ ops = << >>
    /\ fm = << >>
    /\ cb = << >>
    /\ eh = << >>
    /\ nr = << >>
    /\ dg = << >>
    /\ mf = << >>
    /\ b3 = << >>
    /\ sz = << >>
    /\ cas = << >>
    /\ \E keys \in VerifyKeyConfigurations :
           au = [a |-> NewJWTAuthenticator(keys),
                 ctx |-> NoRequest,
                 err |-> NoError]

\* A call of Authenticate outside of gRPC: the context holds no metadata.
JWTAuthenticateNoGRPC ==
    /\ pc = "authenticate"
    /\ \E ctx \in Contexts :
           /\ ~ctx.grpc
           /\ au' = [au EXCEPT !.ctx = ctx, !.err = Authenticate(au.a, ctx)]
    /\ UNCHANGED << ba, blob, digest, store, pc, put, get, ops, fm, cb, eh,
                    nr, dg, mf, b3, sz, cas >>

\* A call of Authenticate for a gRPC request.
JWTAuthenticateGRPC ==
    /\ pc = "authenticate"
    /\ \E ctx \in Contexts :
           /\ ctx.grpc
           /\ au' = [au EXCEPT !.ctx = ctx, !.err = Authenticate(au.a, ctx)]
    /\ UNCHANGED << ba, blob, digest, store, pc, put, get, ops, fm, cb, eh,
                    nr, dg, mf, b3, sz, cas >>

NextJWTAuthenticator ==
    \/ JWTAuthenticateNoGRPC
    \/ JWTAuthenticateGRPC

SpecJWTAuthenticator == InitJWTAuthenticator /\ [][NextJWTAuthenticator]_vars

\* The request carries gRPC metadata with exactly one authorization value,
\* which starts with "Bearer ".
CarriesBearerToken(ctx) ==
    /\ ctx.grpc
    /\ "authorization" \in DOMAIN ctx.md
    /\ Len(ctx.md["authorization"]) = 1
    /\ Len(ctx.md["authorization"][1]) >= 7
    /\ \A i \in 1..7 : ctx.md["authorization"][1][i] = Bearer[i]

\* The token of the request: what follows the seven characters.
BearerToken(ctx) ==
    SubSeq(ctx.md["authorization"][1], 8, Len(ctx.md["authorization"][1]))

\* The token is header "." payload "." signature with a signature that one
\* of the configured keys made over this header and this payload, and the
\* payload holds claims whose dates admit the time now: not before nbf or
\* iat by more than the leeway, not after exp by more than the leeway.
AcceptableToken(t, keys, now) ==
    \E k \in { keys[i] : i \in DOMAIN keys }, p \in DOMAIN PayloadClaims :
        /\ t = << JWTHeader, ".", p, ".", k, JWTHeader, p >>
        /\ \A f \in DOMAIN PayloadClaims[p] \cap { "nbf", "iat" } :
               PayloadClaims[p][f] <= now + DefaultLeeway
        /\ "exp" \in DOMAIN PayloadClaims[p]
               => PayloadClaims[p].exp >= now - DefaultLeeway

\* C34: JWT authentication fails closed.  Authenticate returns nil exactly
\* when the request carries gRPC metadata with exactly one authorization
\* value, that value starts with "Bearer ", the rest of it parses as a
\* signed token whose signature verifies under one of the configured keys,
\* whatever its position, and the dates of its claims are valid at the time
\* of the clock; every other call returns an error of code Unauthenticated.
C34_FailsClosed ==
    au.ctx # NoRequest =>
        /\ au.err.code \in { "OK", "Unauthenticated" }
        /\ au.err = NoError <=>
               /\ CarriesBearerToken(au.ctx)
               /\ AcceptableToken(BearerToken(au.ctx), au.a.verifyKeys,
                                  au.ctx.now)

\* A token signed with the second of two configured keys was accepted at a
\* time within the leeway of its expiry.
C34_FailsClosedReached ==
    /\ au.ctx # NoRequest
    /\ au.a.verifyKeys = << "1", "2" >>
    /\ au.ctx.grpc
    /\ au.ctx.md = [authorization |->
                        << Bearer \o CompactSerialize("2", JWTHeader, "c") >>]
    /\ au.ctx.now = 1600000000
    /\ au.err = NoError

====
